---- MODULE Spec2Model ----
(***************************************************************************)
(* The quiz controller of listen-up-chat: src/src/App.vue and the guarded  *)
(* copy of the same controller in src/src/components/AudioPlayer.vue       *)
(* (second script block, from line 664).  One handler of the controller is *)
(* one action; a handler is an operator from controller state to           *)
(* controller state, so that a handler calling another handler is operator *)
(* application and an exception is the field threw of the result.          *)
(***************************************************************************)
EXTENDS Integers, Sequences, FiniteSets, TLC

VARIABLES
    variant,                  \* which copy of the controller runs
    messages,                 \* const messages = ref<Message[]>
    newMessage,               \* const newMessage = ref("")
    loading,                  \* const loading = ref(false)
    selectedTopic,            \* const selectedTopic = ref("")
    answerType,               \* const answerType = ref("text")
    showAnswerTypeSelection,  \* const showAnswerTypeSelection = ref(false)
    answerTypeSelected,       \* guarded copy only
    continueButtonClicked,    \* guarded copy only
    currentQuestionIndex,     \* const currentQuestionIndex = ref(-1)
    currentQuestions,         \* const currentQuestions = ref<Question[]>([])
    selectedChoices,          \* const selectedChoices = ref({})
    answeredQuestions,        \* const answeredQuestions = ref({})
    waitingForAnswer,         \* const waitingForAnswer = ref(false)
    questionsStarted,         \* const questionsStarted = ref(false)
    currentStory,             \* const currentStory = ref<StoryData | null>(null)
    storyRequests,            \* generate-story fetches in flight
    evalTimers,               \* pending setTimeout(evaluateAnswers, 500)
    evalRequests,             \* evaluate-answers fetches in flight
    audioUrl,                 \* audio player: props.audioUrl
    initialPlaybackRate,      \* audio player: props.initialPlaybackRate
    audioElement,             \* audio player: const audioElement = new Audio()
    isPlaying,                \* audio player: const isPlaying = ref(false)
    audioProgress,            \* audio player: const audioProgress = ref(0)
    isDragging,               \* audio player: const isDragging = ref(false)
    progressBar,              \* audio player: the template ref is set
    playbackRate,             \* audio player: const playbackRate = ref(...)
    showSpeedOptions,         \* audio player: const showSpeedOptions = ref(false)
    audioDuration,            \* audio player: const audioDuration = ref(0)
    listeners,                \* audio player: listeners added to audioElement
    lastOp,                   \* history: the handler that ran last
    lastArg,                  \* history: its argument
    lastError,                \* history: it ended with an uncaught exception
    lastEmitted,              \* history: the events it emitted
    lastSeeked                \* history: it assigned audioElement.currentTime

vars == << variant, messages, newMessage, loading, selectedTopic, answerType,
           showAnswerTypeSelection, answerTypeSelected, continueButtonClicked,
           currentQuestionIndex, currentQuestions, selectedChoices,
           answeredQuestions, waitingForAnswer, questionsStarted, currentStory,
           storyRequests, evalTimers, evalRequests, audioUrl,
           initialPlaybackRate, audioElement, isPlaying, audioProgress,
           isDragging, progressBar, playbackRate, showSpeedOptions,
           audioDuration, listeners, lastOp, lastArg, lastError, lastEmitted,
           lastSeeked >>

\* the state of the audio player, and what the history tells of its handlers
playerVars == << audioUrl, initialPlaybackRate, audioElement, isPlaying,
                 audioProgress, isDragging, progressBar, playbackRate,
                 showSpeedOptions, audioDuration, listeners >>

playerHistory == << lastEmitted, lastSeeked >>

----------------------------------------------------------------------------
(* Bounds of the model *)

MaxQ == 2          \* longest question list the backend returns
MaxMsgs == 9       \* user handlers are taken while the log is shorter
MaxLog == 13       \* longest log of a quiz followed on its own
MaxExtra == 1      \* handler runs of a session beyond one pass through the quiz
MaxTimers == 1     \* evaluation timers pending at once
MaxListeners == 3  \* listeners of one kind on the media element

----------------------------------------------------------------------------
(* Data *)

Variants == {"App", "Guarded"}

Topics == {"Sport", "Reisen"}

AnswerTypes == {"text", "multiple"}

\* What the textarea may hold when a handler reads it: blanks only, and a text
\* with a leading blank.
UserTexts == {" ", " a"}

\* String.prototype.trim on the texts of the model
Trim(t) == IF t = " " THEN "" ELSE IF t = " a" THEN "a" ELSE t

\* undefined, for an index of selectedChoices that has no entry
Unset == -1

\* NaN, the result of Math.round((0 / 0) * 100)
NaN == -1

KeyDom == 0 .. (MaxQ + 1)

Choice(t, c) == [text |-> t, isCorrect |-> c]

\* The entries a questions array of the backend is made of: an object with
\* choices, and a plain string.
QuestionLikes ==
    { [shape |-> "obj", question |-> "q1",
       choices |-> << Choice("w", FALSE), Choice("r", TRUE) >>],
      [shape |-> "str", question |-> "q2", choices |-> << >>] }

QuestionLists == UNION { [1 .. n -> QuestionLikes] : n \in 0 .. MaxQ }

StoryData(qs) ==
    [requestId |-> "r1", story |-> "s1", questions |-> qs, audioUrl |-> "/a1"]

NoStory == [requestId |-> "", story |-> "", questions |-> << >>, audioUrl |-> ""]

Stories == { StoryData(qs) : qs \in QuestionLists }

\* A Message.  tk and s, a, b, c are its text: tk = "raw" is the string s
\* itself, every other tk is a fixed or formatted text of the controller with
\* the numbers it interpolates.  qi and choices are data of a question message,
\* story is data of a story message.
Msg(id, tk, s, sent, type) ==
    [id |-> id, tk |-> tk, s |-> s, a |-> 0, b |-> 0, c |-> 0, sent |-> sent,
     type |-> type, qi |-> -1, choices |-> << >>, story |-> NoStory]

Welcome == Msg("1", "welcome", "", FALSE, "")

----------------------------------------------------------------------------
(* The controller state a handler works on *)

Cur ==
    [variant |-> variant, messages |-> messages, newMessage |-> newMessage,
     loading |-> loading, selectedTopic |-> selectedTopic,
     answerType |-> answerType,
     showAnswerTypeSelection |-> showAnswerTypeSelection,
     answerTypeSelected |-> answerTypeSelected,
     continueButtonClicked |-> continueButtonClicked,
     currentQuestionIndex |-> currentQuestionIndex,
     currentQuestions |-> currentQuestions,
     selectedChoices |-> selectedChoices,
     answeredQuestions |-> answeredQuestions,
     waitingForAnswer |-> waitingForAnswer,
     questionsStarted |-> questionsStarted, currentStory |-> currentStory,
     storyRequests |-> storyRequests, evalTimers |-> evalTimers,
     evalRequests |-> evalRequests, threw |-> FALSE]

\* messages.value.push(m)
Push(st, m) == [st EXCEPT !.messages = Append(@, m)]

\* an exception leaves the handler: what it wrote so far stays written
Throw(st) == [st EXCEPT !.threw = TRUE]

\* arr.filter(keep) on the log
RECURSIVE FilterLoading(_)
FilterLoading(ms) ==
    IF ms = << >> THEN << >>
    ELSE IF Head(ms).id # "loading"
         THEN << Head(ms) >> \o FilterLoading(Tail(ms))
         ELSE FilterLoading(Tail(ms))

\* Object.values(selectedChoices.value): the entries in ascending key order
SetKeys(sc) == { k \in KeyDom : sc[k] # Unset }

KeyAt(sc, p) == CHOOSE k \in SetKeys(sc) : Cardinality({ j \in SetKeys(sc) : j < k }) = p

ObjectValues(sc) == [p \in 1 .. Cardinality(SetKeys(sc)) |-> sc[KeyAt(sc, p - 1)]]

\* question.choices[i] is undefined outside the array
HasChoice(q, i) == i >= 0 /\ i < Len(q.choices)

RECURSIVE SumTo(_, _)
SumTo(f, n) == IF n = 0 THEN 0 ELSE f[n] + SumTo(f, n - 1)

\* Math.round((correct / total) * 100), Math.round rounding halves up
Score(correct, total) ==
    IF total = 0 THEN NaN ELSE (200 * correct + total) \div (2 * total)

----------------------------------------------------------------------------
(* Strings that may hold JSON.  Such a string is the sequence of its       *)
(* tokens: the punctuation of JSON, the literals true, false and null, a   *)
(* string literal in its quotes, a blank, or any other piece of text.      *)

\* the contents of the string literals
Names == {"question", "choices", "text", "isCorrect", "", "q1", "q3", "w", "r", "v"}

Quote(s) == "\"" \o s \o "\""

IsStringToken(tok) == \E s \in Names : tok = Quote(s)

Unquote(tok) == CHOOSE s \in Names : tok = Quote(s)

\* the string itself, as String(q) gives it
RECURSIVE Join(_)
Join(ts) == IF ts = << >> THEN "" ELSE Head(ts) \o Join(Tail(ts))

\* the values of JavaScript that JSON.parse builds, and undefined
JStr(s) == [t |-> "str", v |-> s]

JBool(b) == [t |-> "bool", v |-> b]

JNull == [t |-> "null"]

JUndefined == [t |-> "undefined"]

JArr(elems) == [t |-> "arr", v |-> elems]

JObj(fields) == [t |-> "obj", v |-> fields]

\* JSON.parse: recursive descent over the tokens.  A result is the value and
\* the tokens behind it; ok is false for a SyntaxError.
SyntaxError == [ok |-> FALSE, val |-> JUndefined, rest |-> << >>]

Parsed(val, rest) == [ok |-> TRUE, val |-> val, rest |-> rest]

RECURSIVE ParseValue(_), ParseMembers(_, _), ParseElements(_, _)
ParseValue(ts) ==
    IF ts = << >> THEN SyntaxError
    ELSE LET h == Head(ts)
             r == Tail(ts)
         IN  IF h = "true" THEN Parsed(JBool(TRUE), r)
             ELSE IF h = "false" THEN Parsed(JBool(FALSE), r)
             ELSE IF h = "null" THEN Parsed(JNull, r)
             ELSE IF IsStringToken(h) THEN Parsed(JStr(Unquote(h)), r)
             ELSE IF h = "{"
                  THEN IF r # << >> /\ Head(r) = "}"
                       THEN Parsed(JObj(<< >>), Tail(r))
                       ELSE ParseMembers(r, << >>)
             ELSE IF h = "["
                  THEN IF r # << >> /\ Head(r) = "]"
                       THEN Parsed(JArr(<< >>), Tail(r))
                       ELSE ParseElements(r, << >>)
             ELSE SyntaxError

\* the members of an object from a name on; a name that comes again
\* replaces the earlier value
ParseMembers(ts, fields) ==
    IF Len(ts) < 2 \/ ~IsStringToken(ts[1]) \/ ts[2] # ":" THEN SyntaxError
    ELSE LET p == ParseValue(SubSeq(ts, 3, Len(ts))) IN
         IF ~p.ok \/ p.rest = << >> THEN SyntaxError
         ELSE LET more == (Unquote(ts[1]) :> p.val) @@ fields IN
              IF Head(p.rest) = "}" THEN Parsed(JObj(more), Tail(p.rest))
              ELSE IF Head(p.rest) = "," THEN ParseMembers(Tail(p.rest), more)
              ELSE SyntaxError

\* the elements of an array from an element on
ParseElements(ts, elems) ==
    LET p == ParseValue(ts) IN
    IF ~p.ok \/ p.rest = << >> THEN SyntaxError
    ELSE LET more == Append(elems, p.val) IN
         IF Head(p.rest) = "]" THEN Parsed(JArr(more), Tail(p.rest))
         ELSE IF Head(p.rest) = "," THEN ParseElements(Tail(p.rest), more)
         ELSE SyntaxError

NotBlank(tok) == tok # " "

\* JSON.parse(str): blanks between the tokens are skipped, and nothing may
\* follow the value
JSONparse(ts) ==
    LET p == ParseValue(SelectSeq(ts, NotBlank))
    IN  IF p.ok /\ p.rest = << >> THEN p ELSE SyntaxError

\* str.trim().startsWith("{")
StartsWithBrace(ts) ==
    LET rest == SelectSeq(ts, NotBlank)
    IN  rest # << >> /\ Head(rest) = "{"

\* obj.name, undefined for a name the object has not
Field(obj, name) == IF name \in DOMAIN obj.v THEN obj.v[name] ELSE JUndefined

\* value || "": the value when it is truthy
Truthy(val) ==
    IF val.t = "str" THEN val.v # ""
    ELSE IF val.t = "bool" THEN val.v
    ELSE val.t \in {"obj", "arr"}

\* String(value); an array is its elements joined by commas, null and
\* undefined among them as the empty string
RECURSIVE JsString(_)
JsString(val) ==
    IF val.t = "str" THEN val.v
    ELSE IF val.t = "bool" THEN (IF val.v THEN "true" ELSE "false")
    ELSE IF val.t = "obj" THEN "[object Object]"
    ELSE IF val.t = "arr"
         THEN (IF val.v = << >> THEN ""
               ELSE LET first == IF val.v[1].t \in {"null", "undefined"} THEN ""
                                 ELSE JsString(val.v[1])
                    IN  IF Len(val.v) = 1 THEN first
                        ELSE first \o "," \o JsString(JArr(Tail(val.v))))
    ELSE val.t

\* a choice that JSON.parse built, as the record the controller reads
ChoiceOf(val) == [text |-> Field(val, "text").v, isCorrect |-> Field(val, "isCorrect").v]

----------------------------------------------------------------------------
(* Handlers *)

showCurrentQuestion(st) ==
    LET i == st.currentQuestionIndex IN
    IF i < 0 \/ i >= Len(st.currentQuestions) THEN st
    ELSE LET q == st.currentQuestions[i + 1]
             m == [Msg("question", "raw", q.question, FALSE, "question")
                       EXCEPT !.qi = i, !.choices = q.choices]
         IN  [Push(st, m) EXCEPT !.waitingForAnswer = TRUE]

\* selectTopic behind its guard
selectTopicBody(st, topic) ==
    LET s1 == [st EXCEPT !.selectedTopic = topic]
        s2 == Push(s1, Msg("time", "raw", topic, TRUE, ""))
        s3 == [s2 EXCEPT !.showAnswerTypeSelection = TRUE]
    IN  Push(s3, Msg("answer-type", "askType", "", FALSE, "answer-type-selection"))

\* a selectTopic that lost its guard
selectTopicNoGuard(st, topic) == selectTopicBody(st, topic)

selectTopic(st, topic) ==
    IF st.selectedTopic # "" THEN st ELSE selectTopicBody(st, topic)

\* selectAnswerType up to its await: the two messages and the fetch
selectAnswerTypeBody(st, type) ==
    LET s1 == [st EXCEPT !.answerType = type,
                         !.showAnswerTypeSelection = FALSE]
        s2 == Push(s1, Msg("answer-type-selection", "typeChoice", type, TRUE, ""))
        s3 == Push(s2, Msg("loading", "loading", st.selectedTopic, FALSE, ""))
    IN  [s3 EXCEPT !.storyRequests =
             Append(@, [topic |-> st.selectedTopic, answerType |-> type])]

selectAnswerTypeApp(st, type) == selectAnswerTypeBody(st, type)

\* a selectAnswerType of the guarded copy that lost its guard
selectAnswerTypeNoGuard(st, type) ==
    selectAnswerTypeBody([st EXCEPT !.answerTypeSelected = TRUE], type)

selectAnswerTypeGuarded(st, type) ==
    IF st.answerTypeSelected THEN st
    ELSE selectAnswerTypeBody([st EXCEPT !.answerTypeSelected = TRUE], type)

selectAnswerType(st, type) ==
    IF st.variant = "App" THEN selectAnswerTypeApp(st, type)
    ELSE selectAnswerTypeGuarded(st, type)

StoryId(requestId) == IF requestId = "r1" THEN "story-r1" ELSE "story-"

\* a selectAnswerType that leaves the loading placeholder in the log when
\* the story has arrived
selectAnswerTypeResumeKeepLoading(st, resp) ==
    IF ~resp.ok
    THEN Push([st EXCEPT !.messages = FilterLoading(@)],
              Msg("error", "storyError", "", FALSE, ""))
    ELSE Push([st EXCEPT !.currentStory = resp.data],
              [Msg(StoryId(resp.data.requestId), "storyReady",
                   st.selectedTopic, FALSE, "story")
                  EXCEPT !.story = resp.data])

\* a selectAnswerType that writes the result over the loading placeholder
selectAnswerTypeResumeInPlace(st, resp) ==
    LET result == IF ~resp.ok THEN Msg("error", "storyError", "", FALSE, "")
                  ELSE [Msg(StoryId(resp.data.requestId), "storyReady",
                            st.selectedTopic, FALSE, "story")
                           EXCEPT !.story = resp.data]
        s1 == IF resp.ok THEN [st EXCEPT !.currentStory = resp.data] ELSE st
    IN  [s1 EXCEPT !.messages =
            [i \in 1 .. Len(@) |-> IF @[i].id = "loading" THEN result ELSE @[i]]]

\* selectAnswerType after its await.  resp.ok is false for a rejected fetch, a
\* status that is not ok and a body that is not JSON; resp.data is the
\* StoryData of the response otherwise.
selectAnswerTypeResume(st, resp) ==
    IF ~resp.ok
    THEN Push([st EXCEPT !.messages = FilterLoading(@)],
              Msg("error", "storyError", "", FALSE, ""))
    ELSE LET s1 == [st EXCEPT !.currentStory = resp.data,
                              !.messages = FilterLoading(@)]
         IN  Push(s1, [Msg(StoryId(resp.data.requestId), "storyReady",
                           st.selectedTopic, FALSE, "story")
                          EXCEPT !.story = resp.data])

\* the callback of storyData.questions.map in showQuestions
\* An entry q of storyData.questions is an object with a question and an
\* array of choices (shape "obj"), an object without the field question
\* ("bare"), a string without braces ("str", its text in q.question) or a
\* string given by its tokens ("chars").
PlainText(text) == [question |-> text, choices |-> << >>]

\* a parse that drops the choices
FromParsedNoChoices(val) ==
    LET question == Field(val, "question")
    IN  PlainText(IF Truthy(question) THEN JsString(question) ELSE "")

\* the Question made of the object that JSON.parse built
FromParsed(val) ==
    LET question == Field(val, "question")
        choices == Field(val, "choices")
    IN  [question |-> IF Truthy(question) THEN JsString(question) ELSE "",
         choices |-> IF choices.t = "arr"
                     THEN [i \in 1 .. Len(choices.v) |-> ChoiceOf(choices.v[i])]
                     ELSE << >>]

\* a callback that answers a SyntaxError as showCurrentQuestion does
NormalizeErrorText(q) ==
    IF q.shape = "obj"
    THEN [question |-> q.question, choices |-> q.choices]
    ELSE IF q.shape = "bare" THEN PlainText("[object Object]")
    ELSE IF q.shape = "str" THEN PlainText(q.question)
    ELSE IF StartsWithBrace(q.text)
         THEN (IF JSONparse(q.text).ok THEN FromParsed(JSONparse(q.text).val)
               ELSE PlainText("Error: Could not parse question"))
         ELSE PlainText(Join(q.text))

Normalize(q) ==
    IF q.shape = "obj"
    THEN [question |-> q.question, choices |-> q.choices]
    ELSE IF q.shape = "bare" THEN PlainText("[object Object]")
    ELSE IF q.shape = "str" THEN PlainText(q.question)
    ELSE IF StartsWithBrace(q.text) /\ JSONparse(q.text).ok
         THEN FromParsed(JSONparse(q.text).val)
         ELSE PlainText(Join(q.text))

showQuestionsBody(st, storyData) ==
    LET qs == [i \in 1 .. Len(storyData.questions) |->
                  Normalize(storyData.questions[i])]
    IN  showCurrentQuestion(
            [st EXCEPT !.currentStory = storyData,
                       !.currentQuestions = qs,
                       !.currentQuestionIndex = 0,
                       !.waitingForAnswer = TRUE,
                       !.questionsStarted = TRUE])

showQuestionsApp(st, storyData) == showQuestionsBody(st, storyData)

\* a showQuestions of the guarded copy that lost its guard
showQuestionsNoGuard(st, storyData) ==
    showQuestionsBody([st EXCEPT !.continueButtonClicked = TRUE], storyData)

showQuestionsGuarded(st, storyData) ==
    IF st.continueButtonClicked THEN st
    ELSE showQuestionsBody([st EXCEPT !.continueButtonClicked = TRUE], storyData)

showQuestions(st, storyData) ==
    IF st.variant = "App" THEN showQuestionsApp(st, storyData)
    ELSE showQuestionsGuarded(st, storyData)

\* The text of a message as a string
TextOf(m) ==
    IF m.tk = "raw" THEN m.s
    ELSE IF m.tk = "typeChoice"
         THEN (IF m.s = "multiple" THEN "Multiple Choice" ELSE "Freitext")
         ELSE m.tk

\* messages.value.findIndex((m) => m.text === question), 0 when there is none
\* (indices of the model start at 1)
FindIndexOfText(ms, question) ==
    LET hits == { i \in 1 .. Len(ms) : ms[i].tk = "raw" /\ ms[i].s = question }
    IN  IF hits = {} THEN 0 ELSE CHOOSE i \in hits : \A j \in hits : i <= j

\* the callback of currentQuestions.value.map that builds userAnswers: the
\* first sent message with a text that is not blank, behind the first message
\* whose text is the question
UserAnswer(ms, question) ==
    LET from == FindIndexOfText(ms, question)
        hits == { i \in 1 .. Len(ms) :
                    ms[i].sent /\ Trim(TextOf(ms[i])) # "" /\ i > from }
    IN  IF hits = {} THEN ""
        ELSE TextOf(ms[CHOOSE i \in hits : \A j \in hits : i <= j])

\* the reduce of goToNextQuestion: position p of Object.values is taken as the
\* index of the question
CorrectCount(st) ==
    LET vals == ObjectValues(st.selectedChoices)
        one == [p \in 1 .. Len(vals) |->
                   IF HasChoice(st.currentQuestions[p], vals[p])
                      /\ st.currentQuestions[p].choices[vals[p] + 1].isCorrect
                   THEN 1 ELSE 0]
    IN  SumTo(one, Len(vals))

CompletionShownApp(st) == TRUE

CompletionShownGuarded(st) == st.answerType = "multiple"

CompletionShown(st) ==
    IF st.variant = "App" THEN CompletionShownApp(st)
    ELSE CompletionShownGuarded(st)

\* selectedChoices.value[i], undefined for an index without entry
Selected(st, i) == IF i \in KeyDom THEN st.selectedChoices[i] ELSE Unset

\* goToNextQuestion, first half: the answer of a multiple-choice question
RecordChoice(st) ==
    LET i == st.currentQuestionIndex IN
    IF i < 0 \/ i >= Len(st.currentQuestions)
    THEN Throw(st)                   \* question is undefined: question.choices
    ELSE LET q == st.currentQuestions[i + 1]
             s1 == [st EXCEPT !.answeredQuestions[i] = TRUE]
         IN  IF ~HasChoice(q, Selected(st, i))
             THEN Throw(s1)          \* selectedChoice is undefined: .text
             ELSE Push(s1, Msg("answer", "raw",
                               q.choices[Selected(st, i) + 1].text, TRUE, ""))

\* goToNextQuestion, second half: the next question or the completion
Advance(st) ==
    LET s1 == [st EXCEPT !.currentQuestionIndex = @ + 1] IN
    IF s1.currentQuestionIndex < Len(s1.currentQuestions)
    THEN [showCurrentQuestion(s1) EXCEPT !.waitingForAnswer = TRUE]
    ELSE IF Cardinality(SetKeys(s1.selectedChoices)) > Len(s1.currentQuestions)
         THEN Throw(s1)              \* currentQuestions.value[index] is undefined
         ELSE LET m == [Msg("completion", "completionCount", "", FALSE, "")
                           EXCEPT !.a = CorrectCount(s1),
                                  !.b = Len(s1.currentQuestions)]
                  s2 == IF CompletionShown(s1) THEN Push(s1, m) ELSE s1
              IN  [s2 EXCEPT !.questionsStarted = FALSE]

goToNextQuestion(st, isTextAnswer) ==
    IF isTextAnswer THEN Advance(st)
    ELSE LET s1 == RecordChoice(st)
         IN  IF s1.threw THEN s1 ELSE Advance(s1)

\* a catch block that goes on to the restart prompt
EvaluateCatchThenRestart(st) ==
    Push(Push(st, Msg("error", "evalError", "", FALSE, "")),
         Msg("restart", "restartPrompt", "", FALSE, "restart"))

\* evaluateAnswers, the catch and the finally block
EvaluateCatch(st) == Push(st, Msg("error", "evalError", "", FALSE, ""))

EvaluateFinally(st) == [st EXCEPT !.loading = FALSE, !.questionsStarted = FALSE]

\* evaluateAnswers, multiple-choice branch: the answers, the score, the
\* evaluation message, one feedback message for each wrong answer that has a
\* correct choice to show, the completion message
RECURSIVE FeedbackMessages(_, _)
FeedbackMessages(st, n) ==
    IF n = 0 THEN << >>
    ELSE LET q == st.currentQuestions[n]
             sel == q.choices[Selected(st, n - 1) + 1]
             right == { j \in 1 .. Len(q.choices) : q.choices[j].isCorrect }
             rest == FeedbackMessages(st, n - 1)
         IN  IF ~sel.isCorrect /\ right # {}
             THEN Append(rest,
                         [Msg("feedback", "feedback", q.question, FALSE, "")
                             EXCEPT !.qi = n - 1,
                                    !.choices = << sel,
                                        q.choices[CHOOSE j \in right :
                                                    \A k \in right : j <= k] >>])
             ELSE rest

EvaluateMultiple(st) ==
    LET qs == st.currentQuestions
        total == Len(qs)
    IN  IF \E n \in 1 .. total : ~HasChoice(qs[n], Selected(st, n - 1))
        THEN Throw(st)     \* q.choices[undefined] is undefined: .text
        ELSE LET isCorrect == [n \in 1 .. total |->
                                  IF qs[n].choices[Selected(st, n - 1) + 1].isCorrect
                                  THEN 1 ELSE 0]
                 correct == SumTo(isCorrect, total)
                 ev == [Msg("evaluation", "evaluation", "", FALSE, "evaluation")
                           EXCEPT !.a = Score(correct, total), !.b = correct,
                                  !.c = total]
             IN  [st EXCEPT !.messages =
                      Append(Append(@, ev) \o FeedbackMessages(st, total),
                             Msg("completion", "completionDone", "", FALSE, ""))]

RestartMessage == Msg("restart", "restartPrompt", "", FALSE, "restart")

\* evaluateAnswers, free-text branch up to the fetch: the request body
EvaluateRequest(st) ==
    [story |-> IF st.currentStory = NoStory THEN "" ELSE st.currentStory.story,
     questions |-> [n \in 1 .. Len(st.currentQuestions) |->
                       [question |-> st.currentQuestions[n].question,
                        answer |-> UserAnswer(st.messages,
                                              st.currentQuestions[n].question)]]]

\* evaluateAnswers up to its first await, or to its end when it has none.
\* via names the caller that awaits it.
evaluateAnswers(st, via) ==
    LET s1 == [Push(st, Msg("complete", "evaluating", "", FALSE, ""))
                  EXCEPT !.loading = TRUE]
    IN  IF s1.answerType = "multiple"
        THEN LET s2 == EvaluateMultiple(s1)
             IN  IF s2.threw
                 THEN EvaluateFinally(EvaluateCatch([s2 EXCEPT !.threw = FALSE]))
                 ELSE EvaluateFinally(Push(s2, RestartMessage))
        ELSE [s1 EXCEPT !.evalRequests =
                  Append(@, [body |-> EvaluateRequest(s1), via |-> via])]

\* result.evaluations that is missing or no array
NotArray == -1

\* The responses of evaluate-answers: ok is false for a rejected fetch, a
\* status that is not ok and a body that is not JSON; feedback says that
\* result.feedback is truthy; evaluations is the number of entries of
\* result.evaluations, or NotArray; nullAt is the position of an entry that
\* is null, 0 when every entry is an object.
EvalResponses ==
    { [ok |-> FALSE, feedback |-> FALSE, overallScore |-> 0, evaluations |-> 0,
       nullAt |-> 0],
      [ok |-> TRUE, feedback |-> FALSE, overallScore |-> 50, evaluations |-> 1,
       nullAt |-> 0],
      [ok |-> TRUE, feedback |-> TRUE, overallScore |-> 50, evaluations |-> 1,
       nullAt |-> 0],
      [ok |-> TRUE, feedback |-> TRUE, overallScore |-> 50,
       evaluations |-> NotArray, nullAt |-> 0],
      [ok |-> TRUE, feedback |-> TRUE, overallScore |-> 50, evaluations |-> 1,
       nullAt |-> 1] }

\* A response of evaluate-answers as the history names it
Conforming(resp) ==
    resp.ok /\ resp.feedback /\ resp.evaluations # NotArray /\ resp.nullAt = 0

Outcome(resp) ==
    IF ~resp.ok THEN "failed" ELSE IF Conforming(resp) THEN "ok" ELSE "malformed"

RECURSIVE EvaluationDetails(_)
EvaluationDetails(n) ==
    IF n = 0 THEN << >>
    ELSE Append(EvaluationDetails(n - 1),
                [Msg("answer-i", "evaluationDetail", "", FALSE, "")
                    EXCEPT !.qi = n - 1])

\* evaluateAnswers after the await of the free-text branch, and then the
\* rest of the caller that awaited it: sendMessage clears the input
evaluateAnswersResume(st, req, resp) ==
    LET ev == [Msg("evaluation", "evaluationRemote", "", FALSE, "")
                  EXCEPT !.a = resp.overallScore]
        s1 == IF ~resp.ok THEN EvaluateCatch(st)
              ELSE IF ~resp.feedback THEN Push(st, RestartMessage)
              ELSE IF resp.evaluations = NotArray
                   THEN Push(Push(st, ev), RestartMessage)
              ELSE IF resp.nullAt > 0
                   \* evaluation.question of null throws inside forEach
                   THEN EvaluateCatch(
                            [st EXCEPT !.messages =
                                Append(@, ev) \o
                                EvaluationDetails(resp.nullAt - 1)])
              ELSE Push([st EXCEPT !.messages =
                            Append(@, ev) \o
                            EvaluationDetails(resp.evaluations)],
                        RestartMessage)
        s3 == EvaluateFinally(s1)
    IN  IF req.via = "sendMessage" THEN [s3 EXCEPT !.newMessage = ""] ELSE s3

\* submitTextAnswer behind its test of the answer
AcceptTextAnswer(st, answer, via) ==
    LET i == st.currentQuestionIndex
        s1 == [st EXCEPT !.newMessage = "",
                         !.waitingForAnswer = FALSE,
                         !.answeredQuestions[i] = TRUE,
                         !.selectedChoices[i] = 0]
        s2 == Push(s1, Msg("-answer", "raw", answer, TRUE, ""))
        s3 == goToNextQuestion(s2, TRUE)
    IN  IF s3.threw THEN s3
        ELSE IF s3.currentQuestionIndex >= Len(s3.currentQuestions)
             THEN evaluateAnswers(s3, via)
             ELSE s3

\* a submitTextAnswer that reads the textarea without trim()
submitTextAnswerNoTrim(st, answerText, via) ==
    LET answer == IF answerText # "" THEN answerText ELSE st.newMessage
    IN  IF answer = "" THEN st ELSE AcceptTextAnswer(st, answer, via)

submitTextAnswer(st, answerText, via) ==
    LET answer == IF answerText # "" THEN answerText ELSE Trim(st.newMessage)
    IN  IF answer = "" THEN st ELSE AcceptTextAnswer(st, answer, via)

\* allQuestionsAnswered: no entry of selectedChoices is null.  No statement
\* of the controller writes null, so every entry passes.
allQuestionsAnswered(st) == \A k \in SetKeys(st.selectedChoices) : TRUE

\* sendMessage, multiple-choice branch
SendChoice(st) ==
    LET i == st.currentQuestionIndex IN
    IF i >= Len(st.currentQuestions)
    THEN Throw(st)                \* currentQuestion is undefined: .choices
    ELSE LET q == st.currentQuestions[i + 1] IN
         IF ~HasChoice(q, Selected(st, i))
         THEN [st EXCEPT !.newMessage = ""]
         ELSE LET s1 == Push(st, Msg("answer", "raw",
                                     q.choices[Selected(st, i) + 1].text, TRUE, ""))
                  s2 == goToNextQuestion(s1, FALSE)
              IN  IF s2.threw THEN s2
                  ELSE [s2 EXCEPT !.newMessage = "",
                                  !.evalTimers =
                                      IF allQuestionsAnswered(s2) THEN @ + 1 ELSE @]

sendMessage(st) ==
    IF Trim(st.newMessage) = "" THEN st
    ELSE IF st.loading THEN st
    ELSE IF st.waitingForAnswer /\ st.currentQuestionIndex >= 0
         THEN IF st.answerType = "text"
              THEN LET s1 == submitTextAnswer(st, Trim(st.newMessage), "sendMessage")
                   IN  IF s1.threw THEN s1 ELSE [s1 EXCEPT !.newMessage = ""]
              ELSE SendChoice(st)
         ELSE [Push(st, Msg("time", "raw", st.newMessage, TRUE, ""))
                  EXCEPT !.newMessage = ""]

\* handleKeyPress for the Enter key in the textarea
handleKeyPress(st) ==
    IF st.answerType = "text" /\ st.questionsStarted /\ st.waitingForAnswer
    THEN submitTextAnswer(st, "", "handleKeyPress")
    ELSE sendMessage(st)

----------------------------------------------------------------------------
(* The audio player component: src/src/components/AudioPlayer.vue, first   *)
(* script block.  Times are in quarters of the length of the medium,       *)
(* rates, pointer positions and audioProgress in percent.                  *)

\* the duration of a stream without end
Infinity == 1000

\* the duration of a medium whose metadata is loaded
Durations == {0, 4, Infinity}

\* audioElement.defaultPlaybackRate
DefaultPlaybackRate == 100

\* two of the speeds of speedOptions
speedOptions == {50, 150}

InitialRates == {100, 125}

\* A URL is the sequence of the pieces of its text.  import.meta.env
\* .VITE_API_BASE_URL, the address of the page, and the values of the prop
\* audioUrl: the empty string, a relative URL and an absolute one.
ApiBaseUrl == << "http", "://api" >>

PageUrl == << "http", "://page" >>

AudioUrls == { << >>, << "/a1" >>, << "http", "://cdn/a3" >> }

\* url.startsWith("http")
StartsWithHttp(url) == url # << >> /\ Head(url) = "http"

getFullAudioUrl(url) == IF StartsWithHttp(url) THEN url ELSE ApiBaseUrl \o url

\* audioElement.src as the getter gives it: the attribute, resolved against
\* the address of the page
SrcOf(el) ==
    IF el.src = << >> THEN << >>
    ELSE IF StartsWithHttp(el.src) THEN el.src
    ELSE PageUrl \o el.src

\* new Audio()
NewAudio ==
    [src |-> << >>, currentTime |-> 0, duration |-> NaN, paused |-> TRUE,
     playbackRate |-> DefaultPlaybackRate]

\* The media element load algorithm of the HTML standard, run by load() and
\* by an assignment to src: the element is paused, at position 0, without
\* duration and at its default rate.
LoadAlgorithm(el) ==
    [el EXCEPT !.currentTime = 0, !.duration = NaN, !.paused = TRUE,
               !.playbackRate = DefaultPlaybackRate]

SetSrc(el, url) == LoadAlgorithm([el EXCEPT !.src = url])

\* isFinite(x), and x as a condition
IsFinite(x) == x # NaN /\ x # Infinity

Truthful(x) == x # NaN /\ x # 0

\* position * audioElement.duration for a position in percent: a time, or
\* Infinity, -Infinity (as Infinity here) or NaN
TimesDuration(position, duration) ==
    IF duration = Infinity THEN (IF position = 0 THEN NaN ELSE Infinity)
    ELSE (position * duration) \div 100

Clamp(x, lo, hi) == IF x < lo THEN lo ELSE IF x > hi THEN hi ELSE x

\* The audio player a handler works on.  emitted, seeked and threw tell
\* what the handler did.
CurPlayer ==
    [audioUrl |-> audioUrl, initialPlaybackRate |-> initialPlaybackRate,
     audioElement |-> audioElement, isPlaying |-> isPlaying,
     audioProgress |-> audioProgress, isDragging |-> isDragging,
     progressBar |-> progressBar, playbackRate |-> playbackRate,
     showSpeedOptions |-> showSpeedOptions, audioDuration |-> audioDuration,
     listeners |-> listeners, emitted |-> << >>, seeked |-> FALSE,
     threw |-> FALSE]

Emit(pl, name) ==
    [pl EXCEPT !.emitted = Append(@, [name |-> name, currentTime |-> 0, duration |-> 0])]

\* audioElement.currentTime = time: a TypeError for a time that is not
\* finite, a seek to the nearest position of the medium otherwise
SetCurrentTime(pl, time) ==
    IF ~IsFinite(time) THEN [pl EXCEPT !.threw = TRUE]
    ELSE [pl EXCEPT !.seeked = TRUE,
                    !.audioElement.currentTime =
                        IF IsFinite(pl.audioElement.duration)
                        THEN Clamp(time, 0, pl.audioElement.duration)
                        ELSE Clamp(time, 0, time)]

\* audioElement.play().catch(...): playback starts, from the beginning when
\* the medium had ended, or the promise is rejected and the element stays
\* as it is
Play(pl, started) ==
    IF ~started THEN pl
    ELSE [pl EXCEPT !.audioElement.paused = FALSE,
                    !.audioElement.currentTime =
                        IF @ = pl.audioElement.duration THEN 0 ELSE @]

updateProgressFromEvent(pl, position) ==
    IF ~pl.progressBar THEN pl
    ELSE LET newPosition == Clamp(position, 0, 100)
             p1 == [pl EXCEPT !.audioProgress = newPosition]
         IN  IF Truthful(pl.audioElement.duration)
             THEN SetCurrentTime(p1, TimesDuration(newPosition, pl.audioElement.duration))
             ELSE p1

startDrag(pl, position) ==
    updateProgressFromEvent([pl EXCEPT !.isDragging = TRUE], position)

handleDrag(pl, position) ==
    IF ~pl.isDragging THEN pl ELSE updateProgressFromEvent(pl, position)

stopDrag(pl) == [pl EXCEPT !.isDragging = FALSE]

togglePlayPause(pl, started) ==
    IF pl.audioUrl = << >> THEN pl
    ELSE IF pl.isPlaying
         THEN Emit([pl EXCEPT !.audioElement.paused = TRUE, !.isPlaying = FALSE],
                   "pause")
         ELSE LET full == getFullAudioUrl(pl.audioUrl)
                  p1 == IF SrcOf(pl.audioElement) # full
                        THEN [pl EXCEPT !.audioElement = SetSrc(@, full)]
                        ELSE pl
                  p2 == Play(p1, started)
              IN  Emit([p2 EXCEPT !.isPlaying = TRUE], "play")

setPlaybackSpeed(pl, speed) ==
    [pl EXCEPT !.playbackRate = speed, !.audioElement.playbackRate = speed,
               !.showSpeedOptions = FALSE]

\* inside: the click is in the element .playback-speed-container
handleClickOutside(pl, inside) ==
    IF inside THEN pl ELSE [pl EXCEPT !.showSpeedOptions = FALSE]

\* an updateProgress that does not test isFinite
updateProgressNoIsFinite(pl) ==
    LET el == pl.audioElement IN
    IF Truthful(el.duration) /\ el.duration > 0
    THEN LET progress == IF el.duration = Infinity THEN 0
                         ELSE (el.currentTime * 100) \div el.duration
             p1 == [pl EXCEPT !.audioProgress = Clamp(progress, 0, 100)]
         IN  [p1 EXCEPT !.emitted =
                 Append(@, [name |-> "timeupdate", currentTime |-> el.currentTime,
                            duration |-> el.duration])]
    ELSE pl

updateProgress(pl) ==
    LET el == pl.audioElement IN
    IF Truthful(el.duration) /\ IsFinite(el.duration) /\ el.duration > 0
    THEN LET progress == (el.currentTime * 100) \div el.duration
             p1 == [pl EXCEPT !.audioProgress = Clamp(progress, 0, 100)]
         IN  [p1 EXCEPT !.emitted =
                 Append(@, [name |-> "timeupdate", currentTime |-> el.currentTime,
                            duration |-> el.duration])]
    ELSE pl

handleProgressClick(pl, clickPosition) ==
    LET el == pl.audioElement IN
    IF ~Truthful(el.duration) \/ pl.isDragging THEN pl
    ELSE LET newTime == TimesDuration(clickPosition, el.duration)
             p1 == SetCurrentTime(pl, newTime)
         IN  IF p1.threw THEN p1
             ELSE LET p2 == [p1 EXCEPT !.audioProgress =
                                          (newTime * 100) \div el.duration]
                  IN  IF p2.audioElement.paused THEN updateProgress(p2) ELSE p2

\* initAudio: the relative URL is assigned as it is; the listener
\* updateProgress is one function and is added once, the other two are new
\* functions at every call
initAudio(pl) ==
    [pl EXCEPT !.audioElement = LoadAlgorithm(SetSrc(@, pl.audioUrl)),
               !.listeners = [timeupdate |-> 1,
                              loadedmetadata |-> @.loadedmetadata + 1,
                              ended |-> @.ended + 1]]

\* cleanup: the function given to removeEventListener("ended", ...) is a new
\* one and no listener
cleanup(pl) ==
    [pl EXCEPT !.audioElement.paused = TRUE, !.listeners.timeupdate = 0]

resetAudio(pl, started) ==
    LET p1 == [SetCurrentTime(pl, 0) EXCEPT !.audioProgress = 0]
    IN  IF p1.isPlaying THEN Play(p1, started) ELSE p1

\* the callback of watch(() => props.audioUrl), the prop holding newUrl
watchAudioUrl(pl, newUrl) ==
    LET p0 == [pl EXCEPT !.audioUrl = newUrl] IN
    IF newUrl = << >> THEN p0
    ELSE LET p1 == cleanup(p0)
             p2 == [p1 EXCEPT !.audioElement = SetSrc(@, getFullAudioUrl(newUrl)),
                              !.audioProgress = 0,
                              !.audioDuration = 0]
             p3 == initAudio(p2)
         IN  [p3 EXCEPT !.audioElement = LoadAlgorithm(@)]

\* the script of the component, run at creation with its props
Setup(url, rate) ==
    watchAudioUrl(
        [audioUrl |-> url, initialPlaybackRate |-> rate,
         audioElement |-> [NewAudio EXCEPT !.playbackRate = rate],
         isPlaying |-> FALSE, audioProgress |-> 0, isDragging |-> FALSE,
         progressBar |-> FALSE, playbackRate |-> rate,
         showSpeedOptions |-> FALSE, audioDuration |-> 0,
         listeners |-> [timeupdate |-> 0, loadedmetadata |-> 0, ended |-> 0],
         emitted |-> << >>, seeked |-> FALSE, threw |-> FALSE],
        url)

onMounted(pl) == initAudio([pl EXCEPT !.progressBar = TRUE])

onUnmounted(pl) == [cleanup(pl) EXCEPT !.progressBar = FALSE]

\* the listeners of the media element: loadedmetadata, ended
onLoadedMetadata(pl) ==
    IF pl.listeners.loadedmetadata > 0
    THEN [pl EXCEPT !.audioDuration = pl.audioElement.duration]
    ELSE pl

RECURSIVE onEnded(_, _)
onEnded(pl, n) ==
    IF n = 0 THEN pl
    ELSE Emit([onEnded(pl, n - 1) EXCEPT !.isPlaying = FALSE], "ended")

onTimeupdate(pl) == IF pl.listeners.timeupdate > 0 THEN updateProgress(pl) ELSE pl

\* the audio player is in state pl
PlayerIs(pl) ==
    /\ audioUrl = pl.audioUrl
    /\ initialPlaybackRate = pl.initialPlaybackRate
    /\ audioElement = pl.audioElement
    /\ isPlaying = pl.isPlaying
    /\ audioProgress = pl.audioProgress
    /\ isDragging = pl.isDragging
    /\ progressBar = pl.progressBar
    /\ playbackRate = pl.playbackRate
    /\ showSpeedOptions = pl.showSpeedOptions
    /\ audioDuration = pl.audioDuration
    /\ listeners = pl.listeners

----------------------------------------------------------------------------
(* The specification *)

Init ==
    /\ variant \in Variants
    /\ messages = << Welcome >>
    /\ newMessage = ""
    /\ loading = FALSE
    /\ selectedTopic = ""
    /\ answerType = "text"
    /\ showAnswerTypeSelection = FALSE
    /\ answerTypeSelected = FALSE
    /\ continueButtonClicked = FALSE
    /\ currentQuestionIndex = -1
    /\ currentQuestions = << >>
    /\ selectedChoices = [k \in KeyDom |-> Unset]
    /\ answeredQuestions = [k \in KeyDom |-> FALSE]
    /\ waitingForAnswer = FALSE
    /\ questionsStarted = FALSE
    /\ currentStory = NoStory
    /\ storyRequests = << >>
    /\ evalTimers = 0
    /\ evalRequests = << >>
    /\ PlayerIs(Setup(<< >>, DefaultPlaybackRate))
    /\ lastOp = "setup"
    /\ lastArg = ""
    /\ lastError = FALSE
    /\ lastEmitted = << >>
    /\ lastSeeked = FALSE

\* The handler op, called with arg, ran to its end or to its next await and
\* left the controller in state s.
Apply(s, op, arg) ==
    /\ variant' = s.variant
    /\ messages' = s.messages
    /\ newMessage' = s.newMessage
    /\ loading' = s.loading
    /\ selectedTopic' = s.selectedTopic
    /\ answerType' = s.answerType
    /\ showAnswerTypeSelection' = s.showAnswerTypeSelection
    /\ answerTypeSelected' = s.answerTypeSelected
    /\ continueButtonClicked' = s.continueButtonClicked
    /\ currentQuestionIndex' = s.currentQuestionIndex
    /\ currentQuestions' = s.currentQuestions
    /\ selectedChoices' = s.selectedChoices
    /\ answeredQuestions' = s.answeredQuestions
    /\ waitingForAnswer' = s.waitingForAnswer
    /\ questionsStarted' = s.questionsStarted
    /\ currentStory' = s.currentStory
    /\ storyRequests' = s.storyRequests
    /\ evalTimers' = s.evalTimers
    /\ evalRequests' = s.evalRequests
    /\ lastOp' = op
    /\ lastArg' = arg
    /\ lastError' = s.threw
    /\ UNCHANGED << playerVars, playerHistory >>

\* The sessions the model follows: a user handler that appends to the log is
\* taken while the log is short, and beyond one selectAnswerType and one
\* showQuestions a session has MaxExtra more runs of them or plain chat
\* messages.
ChatCount(ms) ==
    Cardinality({ i \in 1 .. Len(ms) : ms[i].tk = "raw" /\ ms[i].id = "time"
                                       /\ ms[i].s \in UserTexts })

SelectCount(ms) ==
    Cardinality({ i \in 1 .. Len(ms) : ms[i].id = "answer-type-selection" })

ShowCount(ms) ==
    Cardinality({ i \in 1 .. Len(ms) : ms[i].type = "question" /\ ms[i].qi = 0 })

Beyond(n) == IF n > 1 THEN n - 1 ELSE 0

ExtraCount(ms) == ChatCount(ms) + Beyond(SelectCount(ms)) + Beyond(ShowCount(ms))

InBounds(s) ==
    /\ Len(s.messages) = Len(messages) \/ Len(messages) < MaxMsgs
    /\ ExtraCount(s.messages) <= MaxExtra
    /\ s.evalTimers <= MaxTimers

Remove(seq, i) == SubSeq(seq, 1, i - 1) \o SubSeq(seq, i + 1, Len(seq))

StoryResponses ==
    { [ok |-> FALSE, data |-> NoStory] } \cup { [ok |-> TRUE, data |-> d] : d \in Stories }

\* The controls of the template that are in the page, enabled or disabled.
\* A handler bound to a button of a message runs while that button is in the
\* page; the guards of the handlers are what keeps a disabled button from
\* acting.
TopicButtonsInPage ==
    variant = "App" => ~showAnswerTypeSelection

\* answer-type buttons that are in the page from the start
AnswerTypeButtonsFromTheStart == TRUE

AnswerTypeButtonsInPage ==
    \E m \in 1 .. Len(messages) : messages[m].type = "answer-type-selection"

NextButtonInPage ==
    /\ answerType = "multiple"
    /\ \E m \in 1 .. Len(messages) : messages[m].type = "question"

SelectTopic(topic) ==
    /\ TopicButtonsInPage
    /\ LET s == selectTopic(Cur, topic)
       IN  InBounds(s) /\ Apply(s, "selectTopic", topic)

SelectAnswerType(type) ==
    /\ AnswerTypeButtonsInPage
    /\ LET s == selectAnswerType(Cur, type)
       IN  InBounds(s) /\ Apply(s, "selectAnswerType", type)

\* The responses the model follows: the backend answers every request of a
\* session with the same story, or fails.
SameStory(resp) ==
    \A m \in 1 .. Len(messages) :
        (resp.ok /\ messages[m].type = "story") => messages[m].story = resp.data

StoryResponse(i, resp) ==
    /\ SameStory(resp)
    /\ Apply(selectAnswerTypeResume([Cur EXCEPT !.storyRequests = Remove(@, i)], resp),
             "storyResponse", IF resp.ok THEN "ok" ELSE "failed")

\* a click on the continue button of the story message at position m
ShowQuestions(m) ==
    /\ messages[m].type = "story"
    /\ LET s == showQuestions(Cur, messages[m].story)
       IN  InBounds(s) /\ Apply(s, "showQuestions", "")

\* The radio inputs of a question message are in the page when the message
\* has choices (in the guarded copy: and answerType is "multiple"), and are
\* disabled once the question of the message is answered.
RadioEnabled(m) ==
    /\ messages[m].type = "question"
    /\ (variant = "Guarded") => (answerType = "multiple")
    /\ ~answeredQuestions[messages[m].qi]

\* v-model="selectedChoices[message.data.questionIndex]" on radio c
SelectChoice(m, c) ==
    /\ RadioEnabled(m)
    /\ c < Len(messages[m].choices)
    /\ Apply([Cur EXCEPT !.selectedChoices[messages[m].qi] = c], "selectChoice", "")

GoToNextQuestion ==
    /\ NextButtonInPage
    /\ LET s == goToNextQuestion(Cur, FALSE)
       IN  InBounds(s) /\ Apply(s, "goToNextQuestion", "")

\* the textarea holds text when the send button is clicked
SendMessage(text) ==
    LET s == sendMessage([Cur EXCEPT !.newMessage = text])
    IN  InBounds(s) /\ Apply(s, "sendMessage", text)

\* the textarea holds text when Enter is pressed
HandleKeyPress(text) ==
    LET s == handleKeyPress([Cur EXCEPT !.newMessage = text])
    IN  InBounds(s) /\ Apply(s, "handleKeyPress", text)

\* a timer set by sendMessage runs evaluateAnswers
EvalTimer ==
    /\ evalTimers > 0
    /\ Apply(evaluateAnswers([Cur EXCEPT !.evalTimers = @ - 1], "timer"),
             "evaluateAnswers", "")

EvalResponse(i, resp) ==
    Apply(evaluateAnswersResume([Cur EXCEPT !.evalRequests = Remove(@, i)],
                                evalRequests[i], resp),
          "evalResponse", Outcome(resp))

\* restartQuiz: window.location.reload() builds the controller anew
restartQuiz ==
    [Cur EXCEPT !.messages = << Welcome >>, !.newMessage = "", !.loading = FALSE,
                !.selectedTopic = "", !.answerType = "text",
                !.showAnswerTypeSelection = FALSE, !.answerTypeSelected = FALSE,
                !.continueButtonClicked = FALSE, !.currentQuestionIndex = -1,
                !.currentQuestions = << >>,
                !.selectedChoices = [k \in KeyDom |-> Unset],
                !.answeredQuestions = [k \in KeyDom |-> FALSE],
                !.waitingForAnswer = FALSE, !.questionsStarted = FALSE,
                !.currentStory = NoStory, !.storyRequests = << >>,
                !.evalTimers = 0, !.evalRequests = << >>]

RestartQuiz ==
    /\ \E m \in 1 .. Len(messages) : messages[m].type = "restart"
    /\ Apply(restartQuiz, "restartQuiz", "")

Next ==
    \/ \E topic \in Topics : SelectTopic(topic)
    \/ \E type \in AnswerTypes : SelectAnswerType(type)
    \/ \E i \in 1 .. Len(storyRequests), resp \in StoryResponses : StoryResponse(i, resp)
    \/ \E m \in 1 .. Len(messages) : ShowQuestions(m)
    \/ \E m \in 1 .. Len(messages), c \in 0 .. 1 : SelectChoice(m, c)
    \/ GoToNextQuestion
    \/ \E text \in UserTexts : SendMessage(text)
    \/ \E text \in UserTexts : HandleKeyPress(text)
    \/ EvalTimer
    \/ \E i \in 1 .. Len(evalRequests), resp \in EvalResponses : EvalResponse(i, resp)
    \/ RestartQuiz

Spec == Init /\ [][Next]_vars

\* src/src/App.vue alone, and the guarded copy alone
InitApp == Init /\ variant = "App"

SpecApp == InitApp /\ [][Next]_vars

InitGuarded == Init /\ variant = "Guarded"

SpecGuarded == InitGuarded /\ [][Next]_vars

----------------------------------------------------------------------------
(* Sanity of the model *)

TypeOK ==
    /\ variant \in Variants
    /\ currentQuestionIndex \in -1 .. (MaxQ + 1)
    /\ \A k \in KeyDom : selectedChoices[k] \in {Unset, 0, 1}
    /\ DOMAIN selectedChoices = KeyDom
    /\ DOMAIN answeredQuestions = KeyDom
    /\ Len(currentQuestions) <= MaxQ
    /\ evalTimers \in 0 .. MaxTimers

----------------------------------------------------------------------------
(* Properties *)

\* the state of the controller, without the history variables
progVars == << variant, messages, newMessage, loading, selectedTopic, answerType,
               showAnswerTypeSelection, answerTypeSelected,
               continueButtonClicked, currentQuestionIndex, currentQuestions,
               selectedChoices, answeredQuestions, waitingForAnswer,
               questionsStarted, currentStory, storyRequests, evalTimers,
               evalRequests >>

\* C1: in every reachable state -1 <= currentQuestionIndex <=
\* currentQuestions.length, for both answer modes, every length of the
\* question list and both copies of the controller.
C1_IndexWithinBounds ==
    -1 <= currentQuestionIndex /\ currentQuestionIndex <= Len(currentQuestions)

\* C2: no step other than a restart decreases currentQuestionIndex.
C2_IndexNeverDecreases ==
    [][lastOp' # "restartQuiz" => currentQuestionIndex' >= currentQuestionIndex]_vars

\* an evaluateAnswers call is pending, running or done
EvaluationTriggered ==
    \/ evalTimers > 0
    \/ \E m \in 1 .. Len(messages) : messages[m].tk = "evaluating"

\* C3: in a multiple-choice session with at least one question, when the
\* next-question control has answered the last question, evaluation is
\* triggered (the summary message and the restart prompt of the claim are
\* what a triggered evaluation appends).
C3_EvaluationAfterLastAnswer ==
    ( /\ lastOp = "goToNextQuestion"
      /\ ~lastError
      /\ answerType = "multiple"
      /\ Len(currentQuestions) >= 1
      /\ currentQuestionIndex = Len(currentQuestions) )
    => EvaluationTriggered

\* the questions whose recorded choice is a correct one
CorrectlyAnswered ==
    { n \in 1 .. Len(currentQuestions) :
        /\ HasChoice(currentQuestions[n], selectedChoices[n - 1])
        /\ currentQuestions[n].choices[selectedChoices[n - 1] + 1].isCorrect }

\* C4: when evaluateAnswers has run in multiple-choice mode on a list of
\* questions, the log holds an evaluation message whose score is
\* round(100 * correct / total), a question without recorded choice counting
\* as incorrect.
C4_ScoreOfMultipleChoice ==
    ( /\ lastOp = "evaluateAnswers"
      /\ answerType = "multiple"
      /\ Len(currentQuestions) >= 1 )
    => \E m \in 1 .. Len(messages) :
          /\ messages[m].type = "evaluation"
          /\ messages[m].c = Len(currentQuestions)
          /\ messages[m].b = Cardinality(CorrectlyAnswered)
          /\ messages[m].a = (200 * messages[m].b + messages[m].c)
                                \div (2 * messages[m].c)

\* C5: selectTopic called while a topic is selected changes nothing, in both
\* copies of the controller.
C5_SecondTopicIsNoOp ==
    [][(lastOp' = "selectTopic" /\ selectedTopic # "") => UNCHANGED progVars]_vars

\* a selectTopic call with another topic than the selected one has returned,
\* after the questions were started
C5_Witness ==
    /\ lastOp = "selectTopic"
    /\ selectedTopic # ""
    /\ lastArg # selectedTopic
    /\ currentQuestionIndex >= 0

\* C6: in the guarded copy a selectAnswerType call that follows an earlier one
\* changes nothing and issues no request.
C6_SecondAnswerTypeIsNoOp ==
    [][(lastOp' = "selectAnswerType" /\ SelectCount(messages) >= 1)
          => UNCHANGED progVars]_vars

\* a second selectAnswerType call, with the other mode, has returned while
\* the request of the first is in flight
C6_Witness ==
    /\ lastOp = "selectAnswerType"
    /\ lastArg # answerType
    /\ Len(storyRequests) = 1
    /\ SelectCount(messages) = 1

\* C7: in App.vue a selectAnswerType call that follows an earlier one leaves
\* answerType as it is, appends no message and issues no request.
C7_AnswerTypeChosenOnce ==
    [][(lastOp' = "selectAnswerType" /\ SelectCount(messages) >= 1)
          => /\ answerType' = answerType
             /\ messages' = messages
             /\ storyRequests' = storyRequests]_vars

\* C8: in the guarded copy a showQuestions call that follows an earlier one
\* appends nothing and leaves the quiz state as it is.
C8_SecondShowQuestionsIsNoOp ==
    [][(lastOp' = "showQuestions" /\ currentQuestionIndex >= 0)
          => UNCHANGED << messages, currentQuestions, currentQuestionIndex,
                          waitingForAnswer, questionsStarted, selectedChoices,
                          answeredQuestions >>]_vars

\* a showQuestions call has returned after the first question was answered
C8_Witness ==
    /\ lastOp = "showQuestions"
    /\ currentQuestionIndex >= 1
    /\ answeredQuestions[0]

\* C9: in multiple-choice mode goToNextQuestion for a current question without
\* recorded choice changes nothing and throws nothing.
C9_NextWithoutChoiceIsNoOp ==
    [][( /\ lastOp' = "goToNextQuestion"
         /\ answerType = "multiple"
         /\ currentQuestionIndex >= 0
         /\ currentQuestionIndex < Len(currentQuestions)
         /\ selectedChoices[currentQuestionIndex] = Unset )
          => (UNCHANGED progVars /\ ~lastError')]_vars

\* C10: waitingForAnswer implies 0 <= currentQuestionIndex <
\* currentQuestions.length.
C10_WaitingImpliesCurrentQuestion ==
    waitingForAnswer =>
        (0 <= currentQuestionIndex /\ currentQuestionIndex < Len(currentQuestions))

\* the evaluateAnswers calls the log shows: each call starts with the message
\* that announces the evaluation
EvalStarts(ms) ==
    Cardinality({ i \in 1 .. Len(ms) : ms[i].tk = "evaluating" })

\* C11: evaluateAnswers is started at most once in a session, and only when
\* currentQuestionIndex = currentQuestions.length.
C11_EvaluationStartsOnceAtTheEnd ==
    [][ /\ EvalStarts(messages') <= 1
        /\ (EvalStarts(messages') > EvalStarts(messages)
               => currentQuestionIndex' = Len(currentQuestions')) ]_vars

\* the quiz state of the controller
quizVars == << currentQuestionIndex, currentQuestions, selectedChoices,
               answeredQuestions, waitingForAnswer, questionsStarted >>

\* C12: an answer submission (sendMessage, the Enter key, the next-question
\* control) made while waitingForAnswer is false or currentQuestionIndex is
\* no index of currentQuestions appends no message and changes no quiz state.
C12_InvalidSubmissionIsNoOp ==
    [][( /\ lastOp' \in {"sendMessage", "handleKeyPress", "goToNextQuestion"}
         /\ \/ ~waitingForAnswer
            \/ currentQuestionIndex < 0
            \/ currentQuestionIndex >= Len(currentQuestions) )
          => UNCHANGED << messages, quizVars >>]_vars

\* C13: in free-text mode a submission of a text that is empty after trim(),
\* through sendMessage or the Enter key, appends no message and leaves
\* currentQuestionIndex, answeredQuestions, selectedChoices and
\* waitingForAnswer as they are.
C13_BlankTextIsNoOp ==
    [][( /\ lastOp' \in {"sendMessage", "handleKeyPress"}
         /\ answerType = "text"
         /\ Trim(lastArg') = "" )
          => UNCHANGED << messages, currentQuestionIndex, answeredQuestions,
                          selectedChoices, waitingForAnswer >>]_vars

\* Enter was pressed on a blank textarea while a free-text question waits
\* for its answer
C13_Witness ==
    /\ lastOp = "handleKeyPress"
    /\ lastArg = " "
    /\ answerType = "text"
    /\ questionsStarted
    /\ waitingForAnswer
    /\ currentQuestionIndex >= 0
    /\ currentQuestionIndex < Len(currentQuestions)

\* C14: when the evaluate-answers call of a free-text session is rejected or
\* answers with a status that is not ok, evaluateAnswers appends the error
\* message and nothing else (no evaluation message, no restart prompt) and
\* ends with loading = false.
C14_FailedEvaluationEndsWithOneError ==
    [][(lastOp' = "evalResponse" /\ lastArg' = "failed")
          => /\ messages' = Append(messages, Msg("error", "evalError", "", FALSE, ""))
             /\ ~loading']_vars

\* the evaluate-answers call of a free-text session has failed
C14_Witness ==
    /\ lastOp = "evalResponse"
    /\ lastArg = "failed"
    /\ answerType = "text"
    /\ Len(currentQuestions) >= 1
    /\ currentQuestionIndex = Len(currentQuestions)

\* C15: an evaluate-answers response with a success status whose body has
\* not the expected shape (no feedback, evaluations that are no array, an
\* entry of evaluations that is no object) changes the log as a failed call
\* does: the error message is appended and nothing else.
C15_MalformedEvaluationIsAFailure ==
    [][(lastOp' = "evalResponse" /\ lastArg' = "malformed")
          => messages' = Append(messages, Msg("error", "evalError", "", FALSE, ""))]_vars

----------------------------------------------------------------------------
(* The free-text quiz on its own: the session from the first question on,  *)
(* with answers that differ from question to question                      *)

\* the controller is in state s
StateIs(s) ==
    /\ variant = s.variant
    /\ messages = s.messages
    /\ newMessage = s.newMessage
    /\ loading = s.loading
    /\ selectedTopic = s.selectedTopic
    /\ answerType = s.answerType
    /\ showAnswerTypeSelection = s.showAnswerTypeSelection
    /\ answerTypeSelected = s.answerTypeSelected
    /\ continueButtonClicked = s.continueButtonClicked
    /\ currentQuestionIndex = s.currentQuestionIndex
    /\ currentQuestions = s.currentQuestions
    /\ selectedChoices = s.selectedChoices
    /\ answeredQuestions = s.answeredQuestions
    /\ waitingForAnswer = s.waitingForAnswer
    /\ questionsStarted = s.questionsStarted
    /\ currentStory = s.currentStory
    /\ storyRequests = s.storyRequests
    /\ evalTimers = s.evalTimers
    /\ evalRequests = s.evalRequests

\* the controller of copy v after construction
Constructed(v) ==
    [variant |-> v, messages |-> << Welcome >>, newMessage |-> "",
     loading |-> FALSE, selectedTopic |-> "", answerType |-> "text",
     showAnswerTypeSelection |-> FALSE, answerTypeSelected |-> FALSE,
     continueButtonClicked |-> FALSE, currentQuestionIndex |-> -1,
     currentQuestions |-> << >>,
     selectedChoices |-> [k \in KeyDom |-> Unset],
     answeredQuestions |-> [k \in KeyDom |-> FALSE],
     waitingForAnswer |-> FALSE, questionsStarted |-> FALSE,
     currentStory |-> NoStory, storyRequests |-> << >>, evalTimers |-> 0,
     evalRequests |-> << >>, threw |-> FALSE]

\* the session of copy v after selectTopic, selectAnswerType(type), the
\* response with story d and showQuestions
QuizStarted(v, topic, type, d) ==
    LET s1 == selectAnswerType(selectTopic(Constructed(v), topic), type)
        s2 == selectAnswerTypeResume([s1 EXCEPT !.storyRequests = << >>],
                                     [ok |-> TRUE, data |-> d])
    IN  showQuestions(s2, d)

\* the texts of the answers
AnswerTexts == {"a", "b"}

InitFreeText ==
    /\ \E v \in Variants, d \in Stories : StateIs(QuizStarted(v, "Sport", "text", d))
    /\ lastOp = "showQuestions"
    /\ lastArg = ""
    /\ lastError = FALSE
    /\ PlayerIs(Setup(<< >>, DefaultPlaybackRate))
    /\ lastEmitted = << >>
    /\ lastSeeked = FALSE

\* the send button, Enter and the continue button, taken while the log
\* they leave is no longer than MaxLog
SubmitBySend(text) ==
    LET s == sendMessage([Cur EXCEPT !.newMessage = text])
    IN  Len(s.messages) <= MaxLog /\ Apply(s, "sendMessage", text)

SubmitByEnter(text) ==
    LET s == handleKeyPress([Cur EXCEPT !.newMessage = text])
    IN  Len(s.messages) <= MaxLog /\ Apply(s, "handleKeyPress", text)

ShowAgain(m) ==
    /\ messages[m].type = "story"
    /\ LET s == showQuestions(Cur, messages[m].story)
       IN  Len(s.messages) <= MaxLog /\ Apply(s, "showQuestions", "")

NextFreeText ==
    \/ \E text \in AnswerTexts : SubmitBySend(text)
    \/ \E text \in AnswerTexts : SubmitByEnter(text)
    \/ \E m \in 1 .. Len(messages) : ShowAgain(m)
    \/ \E i \in 1 .. Len(evalRequests), resp \in EvalResponses : EvalResponse(i, resp)

SpecFreeText == InitFreeText /\ [][NextFreeText]_vars

\* the text the user submitted for question i (counted from 0): the answer
\* message that follows the question message of question i
AnswerTo(ms, i) ==
    LET hits == { k \in 2 .. Len(ms) : /\ ms[k].id = "-answer"
                                       /\ ms[k - 1].type = "question"
                                       /\ ms[k - 1].qi = i }
    IN  IF hits = {} THEN ""
        ELSE ms[CHOOSE k \in hits : \A j \in hits : j <= k].s

\* C16: the evaluate-answers request of a free-text session carries the
\* story text of the current story and pairs every question with the text
\* the user submitted for that question.
C16_RequestPairsQuestionsWithAnswers ==
    [][Len(evalRequests') > Len(evalRequests)
          => LET body == evalRequests'[Len(evalRequests')].body
             IN  /\ body.story = currentStory'.story
                 /\ Len(body.questions) = Len(currentQuestions')
                 /\ \A i \in 1 .. Len(currentQuestions') :
                       /\ body.questions[i].question = currentQuestions'[i].question
                       /\ body.questions[i].answer = AnswerTo(messages', i - 1)]_vars

----------------------------------------------------------------------------

ErrorCount(ms) ==
    Cardinality({ i \in 1 .. Len(ms) : ms[i].tk = "evalError" })

RestartCount(ms) ==
    Cardinality({ i \in 1 .. Len(ms) : ms[i].type = "restart" })

\* this step is the end of an evaluateAnswers call: the timer callback ran
\* the multiple-choice branch, or the response of evaluate-answers arrived
EvaluationEnds ==
    \/ lastOp' = "evaluateAnswers" /\ evalRequests' = evalRequests
    \/ lastOp' = "evalResponse"

\* C17: when evaluateAnswers completes without error, in either answer mode,
\* the last message of the log is the restart prompt and the log holds
\* exactly one restart prompt.
C17_EvaluationEndsWithTheOneRestartPrompt ==
    [][(EvaluationEnds /\ ErrorCount(messages') = ErrorCount(messages))
          => /\ messages'[Len(messages')].type = "restart"
             /\ RestartCount(messages') = 1]_vars

----------------------------------------------------------------------------
(* The multiple-choice quiz on its own: the session from the first         *)
(* question on, over questions with and without a correct choice           *)

\* a question with a wrong and a right choice, and one whose choices are
\* all wrong
ChoiceQuestions ==
    { [shape |-> "obj", question |-> "q1",
       choices |-> << Choice("w", FALSE), Choice("r", TRUE) >>],
      [shape |-> "obj", question |-> "q3",
       choices |-> << Choice("v", FALSE), Choice("w", FALSE) >>] }

ChoiceStories ==
    { StoryData(qs) : qs \in UNION { [1 .. n -> ChoiceQuestions] : n \in 1 .. MaxQ } }

InitMultipleChoice ==
    /\ \E v \in Variants, d \in ChoiceStories :
          StateIs(QuizStarted(v, "Sport", "multiple", d))
    /\ lastOp = "showQuestions"
    /\ lastArg = ""
    /\ lastError = FALSE
    /\ PlayerIs(Setup(<< >>, DefaultPlaybackRate))
    /\ lastEmitted = << >>
    /\ lastSeeked = FALSE

NextMultipleChoice ==
    \/ \E m \in 1 .. Len(messages), c \in 0 .. 1 : SelectChoice(m, c)
    \/ GoToNextQuestion
    \/ SubmitBySend("a")
    \/ EvalTimer

SpecMultipleChoice == InitMultipleChoice /\ [][NextMultipleChoice]_vars

\* the questions (counted from 1) whose recorded choice is in the array of
\* choices, and those of them whose recorded choice is not a correct one
Recorded == { n \in 1 .. Len(currentQuestions) :
                HasChoice(currentQuestions[n], selectedChoices[n - 1]) }

IncorrectlyAnswered ==
    { n \in Recorded :
        ~currentQuestions[n].choices[selectedChoices[n - 1] + 1].isCorrect }

\* the messages a step appends
Appended == SubSeq(messages', Len(messages) + 1, Len(messages'))

\* C18: evaluateAnswers in multiple-choice mode, run on questions that all
\* have a recorded choice, issues no request and appends exactly one summary
\* message and exactly one detail message for each incorrectly answered
\* question, a question without correct choice included.
C18_OneDetailForEachIncorrectAnswer ==
    [][( /\ lastOp' = "evaluateAnswers"
         /\ answerType = "multiple"
         /\ Recorded = 1 .. Len(currentQuestions) )
          => /\ evalRequests' = evalRequests
             /\ Cardinality({ k \in 1 .. Len(Appended) :
                                Appended[k].type = "evaluation" }) = 1
             /\ \A n \in 1 .. Len(currentQuestions) :
                   Cardinality({ k \in 1 .. Len(Appended) :
                                   /\ Appended[k].id = "feedback"
                                   /\ Appended[k].qi = n - 1 })
                     = IF n \in IncorrectlyAnswered THEN 1 ELSE 0]_vars

----------------------------------------------------------------------------
(* The controls of the page that accept a user action *)

TopicButtonEnabled == TopicButtonsInPage /\ selectedTopic = ""

AnswerTypeButtonEnabled ==
    AnswerTypeButtonsInPage /\ (variant = "Guarded" => ~answerTypeSelected)

ContinueButtonEnabled ==
    /\ \E m \in 1 .. Len(messages) : messages[m].type = "story"
    /\ variant = "Guarded" => ~continueButtonClicked

SomeRadioEnabled ==
    \E m \in 1 .. Len(messages) : RadioEnabled(m) /\ Len(messages[m].choices) > 0

\* :disabled="selectedChoices[questionIndex] === null || answeredQuestions[questionIndex]"
NextButtonEnabled ==
    /\ answerType = "multiple"
    /\ \E m \in 1 .. Len(messages) :
          messages[m].type = "question" /\ ~answeredQuestions[messages[m].qi]

RestartButtonInPage ==
    \E m \in 1 .. Len(messages) : messages[m].type = "restart"

\* a textarea that is in the page whatever the state of the quiz
TextareaAlways == ~loading /\ selectedTopic # ""

TextareaEnabled ==
    /\ questionsStarted /\ answerType = "text" /\ waitingForAnswer
    /\ ~loading /\ selectedTopic # ""

SomeControlEnabled ==
    \/ TopicButtonEnabled
    \/ AnswerTypeButtonEnabled
    \/ ContinueButtonEnabled
    \/ SomeRadioEnabled
    \/ NextButtonEnabled
    \/ RestartButtonInPage
    \/ TextareaEnabled

\* the log shows that a generate-story call has failed
StoryFailed == \E m \in 1 .. Len(messages) : messages[m].tk = "storyError"

\* C19: when the generate-story call fails, selectAnswerType removes the
\* loading placeholder and appends the error message and nothing else, and
\* leaves currentQuestionIndex = -1, waitingForAnswer = false and
\* currentQuestions empty; in the guarded copy no control of the page accepts
\* a user action afterwards.
C19_FailedStoryStallsTheSession ==
    [][ /\ (lastOp' = "storyResponse" /\ lastArg' = "failed")
            => /\ messages' = Append(FilterLoading(messages),
                                     Msg("error", "storyError", "", FALSE, ""))
               /\ currentQuestionIndex' = -1
               /\ ~waitingForAnswer'
               /\ currentQuestions' = << >>
        /\ (variant' = "Guarded" /\ StoryFailed') => ~SomeControlEnabled' ]_vars

LoadingCount ==
    Cardinality({ m \in 1 .. Len(messages) : messages[m].id = "loading" })

StoryCount ==
    Cardinality({ m \in 1 .. Len(messages) : messages[m].type = "story" })

StoryErrorCount ==
    Cardinality({ m \in 1 .. Len(messages) : messages[m].tk = "storyError" })

\* C20: in the guarded copy, in every state between two tasks after
\* selectAnswerType was called, either the generate-story request is in
\* flight and the log holds the loading placeholder and neither a story nor
\* an error message, or the request has completed and the log holds no
\* loading placeholder and exactly one of the story and the error message.
C20_LoadingXorResult ==
    SelectCount(messages) >= 1
      => \/ /\ Len(storyRequests) = 1
            /\ LoadingCount = 1
            /\ StoryCount = 0
            /\ StoryErrorCount = 0
         \/ /\ Len(storyRequests) = 0
            /\ LoadingCount = 0
            /\ StoryCount + StoryErrorCount = 1

\* the quiz runs on the story that replaced the loading placeholder
C20_Witness ==
    /\ SelectCount(messages) = 1
    /\ StoryCount = 1
    /\ LoadingCount = 0
    /\ currentQuestionIndex >= 1

\* C21: in src/src/App.vue, for every interleaving of selectAnswerType calls
\* and generate-story responses, the log holds a loading placeholder while a
\* generate-story request is in flight, a response removes the placeholder of
\* its own request only, and the log never holds more than one story message.
C21_PlaceholderOfEachRequest ==
    [][ /\ Len(storyRequests') >= 1 => LoadingCount' >= 1
        /\ lastOp' = "storyResponse" => LoadingCount' = LoadingCount - 1
        /\ StoryCount' <= 1 ]_vars

----------------------------------------------------------------------------
(* The normalization of the questions on its own: sessions from the        *)
(* arrival of a story whose questions are objects, JSON strings and other  *)
(* strings                                                                 *)

\* JSON.stringify of a choice and of a question object
ChoiceTokens(c) ==
    << "{", Quote("text"), ":", Quote(c.text), ",", Quote("isCorrect"), ":",
       IF c.isCorrect THEN "true" ELSE "false", "}" >>

RECURSIVE ChoicesTokens(_)
ChoicesTokens(cs) ==
    IF cs = << >> THEN << >>
    ELSE IF Len(cs) = 1 THEN ChoiceTokens(cs[1])
    ELSE ChoiceTokens(cs[1]) \o << "," >> \o ChoicesTokens(Tail(cs))

JSONstringify(o) ==
    << "{", Quote("question"), ":", Quote(o.question), ",", Quote("choices"), ":", "[" >>
    \o ChoicesTokens(o.choices) \o << "]", "}" >>

\* the encodings of a question object: JSON.stringify of it, also with
\* blanks around it and behind its colons and commas
RECURSIVE Spaced(_)
Spaced(ts) ==
    IF ts = << >> THEN << >>
    ELSE IF Head(ts) \in {":", ","} THEN << Head(ts), " " >> \o Spaced(Tail(ts))
    ELSE << Head(ts) >> \o Spaced(Tail(ts))

Encodings(o) == { JSONstringify(o), << " " >> \o Spaced(JSONstringify(o)) \o << " " >> }

\* question objects {question, choices}
QuestionObjects ==
    { [question |-> "q1", choices |-> << Choice("w", FALSE), Choice("r", TRUE) >>],
      [question |-> "q3", choices |-> << Choice("v", FALSE) >>],
      [question |-> "", choices |-> << >>] }

ObjectEntry(o) == [shape |-> "obj", question |-> o.question, choices |-> o.choices]

CharsEntry(ts) == [shape |-> "chars", text |-> ts]

\* strings that are no JSON: a text, a text in braces, and JSON that breaks
\* off; and JSON of another shape than a question object
BrokenTexts ==
    { << "q4", " ", "?" >>,
      << "{", "q4", "}" >>,
      << "{", Quote("question"), ":", Quote("q1"), ",", Quote("choices"), ":", "[" >> }

OtherJson ==
    { << "{", "}" >>,
      << "{", Quote("question"), ":", Quote("q1"), ",", Quote("choices"), ":", "null", "}" >> }

EntryLikes ==
    { ObjectEntry(o) : o \in QuestionObjects }
    \cup { CharsEntry(ts) : ts \in UNION { Encodings(o) : o \in QuestionObjects } }
    \cup { CharsEntry(ts) : ts \in BrokenTexts \cup OtherJson }
    \cup { [shape |-> "bare"], [shape |-> "str", question |-> "q2", choices |-> << >>] }

\* the question lists of the stories: an entry of any kind at one position,
\* the first of the question objects at the others
FirstObject == ObjectEntry([question |-> "q1",
                            choices |-> << Choice("w", FALSE), Choice("r", TRUE) >>])

EntryLists ==
    UNION { { [i \in 1 .. n |-> IF i = k THEN e ELSE FirstObject] :
                k \in 1 .. n, e \in EntryLikes } : n \in 1 .. MaxQ }

EntryStories == { StoryData(qs) : qs \in EntryLists }

\* the session of copy v after selectTopic, selectAnswerType(type) and the
\* response with story d
StoryArrived(v, topic, type, d) ==
    LET s1 == selectAnswerType(selectTopic(Constructed(v), topic), type)
    IN  selectAnswerTypeResume([s1 EXCEPT !.storyRequests = << >>],
                               [ok |-> TRUE, data |-> d])

InitNormalize ==
    /\ \E v \in Variants, type \in AnswerTypes, d \in EntryStories :
          StateIs(StoryArrived(v, "Sport", type, d))
    /\ lastOp = "storyResponse"
    /\ lastArg = "ok"
    /\ lastError = FALSE
    /\ PlayerIs(Setup(<< >>, DefaultPlaybackRate))
    /\ lastEmitted = << >>
    /\ lastSeeked = FALSE

NextNormalize ==
    \/ \E m \in 1 .. Len(messages) : ShowQuestions(m)
    \/ \E m \in 1 .. Len(messages), c \in 0 .. 1 : SelectChoice(m, c)
    \/ GoToNextQuestion
    \/ SendMessage(" a")

SpecNormalize == InitNormalize /\ [][NextNormalize]_vars

\* the entry is neither an object with a question field nor parseable JSON
Unparseable(q) ==
    \/ q.shape = "str"
    \/ q.shape = "chars" /\ ~JSONparse(q.text).ok

LiteralText(q) == IF q.shape = "str" THEN q.question ELSE Join(q.text)

\* C22: showQuestions does not throw for entries that are objects, JSON
\* strings or other strings; an entry that is neither an object with a
\* question field nor parseable JSON becomes the Question whose prompt is the
\* text of the entry and whose choice list is empty, and its question message
\* carries that prompt and no choices.
C22_MalformedEntryIsPlainQuestion ==
    /\ ~(lastOp = "showQuestions" /\ lastError)
    /\ \A i \in 1 .. Len(currentQuestions) :
          Unparseable(currentStory.questions[i])
            => currentQuestions[i] =
                   [question |-> LiteralText(currentStory.questions[i]),
                    choices |-> << >>]
    /\ \A m \in 1 .. Len(messages) :
          ( /\ messages[m].type = "question"
            /\ Unparseable(currentStory.questions[messages[m].qi + 1]) )
            => /\ messages[m].tk = "raw"
               /\ messages[m].s = LiteralText(currentStory.questions[messages[m].qi + 1])
               /\ messages[m].choices = << >>

\* showQuestions has run on a story whose first entry is JSON that breaks
\* off, and the question of the entry is in the log
C22_Witness ==
    /\ lastOp = "showQuestions"
    /\ currentStory.questions[1].shape = "chars"
    /\ StartsWithBrace(currentStory.questions[1].text)
    /\ ~JSONparse(currentStory.questions[1].text).ok
    /\ \E m \in 1 .. Len(messages) : messages[m].type = "question" /\ messages[m].qi = 0

\* C23: for every question object {question, choices}, showQuestions makes of
\* the JSON string that encodes it the same Question (same prompt, same
\* choices in the same order) as of the object itself.
C23_JsonStringNormalizesAsObject ==
    \A i \in 1 .. Len(currentQuestions) :
        \A o \in QuestionObjects :
            ( /\ currentStory.questions[i].shape = "chars"
              /\ currentStory.questions[i].text \in Encodings(o) )
              => currentQuestions[i] = Normalize(ObjectEntry(o))

\* showQuestions has run on a story whose first entry is the JSON string of
\* a question with two choices
C23_Witness ==
    /\ lastOp = "showQuestions"
    /\ currentStory.questions[1].shape = "chars"
    /\ JSONparse(currentStory.questions[1].text).ok
    /\ Len(currentQuestions) >= 1
    /\ Len(currentQuestions[1].choices) = 2

----------------------------------------------------------------------------

\* the log ms is the beginning of the log ns
IsPrefix(ms, ns) == Len(ms) <= Len(ns) /\ SubSeq(ns, 1, Len(ms)) = ms

\* C24: in both copies of the controller every step of a session (a restart
\* reloads the page and begins another session) changes the log only by
\* removing the entries whose id is "loading" and by appending messages at
\* its end: no other entry is removed, moved or rewritten.
C24_LogIsAppendOnly ==
    [][lastOp' # "restartQuiz"
          => \/ IsPrefix(messages, messages')
             \/ IsPrefix(FilterLoading(messages), messages')]_vars

\* a response of generate-story has removed placeholders from among the
\* other entries of the log
C24_Witness ==
    /\ lastOp = "storyResponse"
    /\ LoadingCount = 0
    /\ SelectCount(messages) = 2
    /\ messages[Len(messages) - 1].id = "answer-type-selection"

----------------------------------------------------------------------------
(* The audio player on its own: one component from its mount on, with the  *)
(* events of its template, of its media element and of its parent          *)

\* The handler op of the audio player, called with arg, left it in state pl.
ApplyPlayer(pl, op, arg) ==
    /\ audioUrl' = pl.audioUrl
    /\ initialPlaybackRate' = pl.initialPlaybackRate
    /\ audioElement' = pl.audioElement
    /\ isPlaying' = pl.isPlaying
    /\ audioProgress' = pl.audioProgress
    /\ isDragging' = pl.isDragging
    /\ progressBar' = pl.progressBar
    /\ playbackRate' = pl.playbackRate
    /\ showSpeedOptions' = pl.showSpeedOptions
    /\ audioDuration' = pl.audioDuration
    /\ listeners' = pl.listeners
    /\ lastOp' = op
    /\ lastArg' = arg
    /\ lastError' = pl.threw
    /\ lastEmitted' = pl.emitted
    /\ lastSeeked' = pl.seeked
    /\ UNCHANGED progVars

\* the positions of the pointer on the progress bar, (clientX - left) / width
\* in percent
PointerPositions == {-50, 0, 50, 150}

InitPlayer ==
    /\ StateIs(Constructed("Guarded"))
    /\ \E url \in AudioUrls, rate \in InitialRates :
          PlayerIs(onMounted(Setup(url, rate)))
    /\ lastOp = "onMounted"
    /\ lastArg = ""
    /\ lastError = FALSE
    /\ lastEmitted = << >>
    /\ lastSeeked = FALSE

\* A click in the component that is not in .playback-speed-container also
\* reaches the listener of the document, handleClickOutside.
ProgressClick(position) ==
    /\ progressBar
    /\ LET pl == handleProgressClick(CurPlayer, position)
       IN  ApplyPlayer(IF pl.threw THEN pl ELSE handleClickOutside(pl, FALSE),
                       "handleProgressClick", position)

MouseDown(position) ==
    /\ progressBar
    /\ ApplyPlayer(startDrag(CurPlayer, position), "startDrag", position)

MouseMove(position) ==
    /\ progressBar
    /\ ApplyPlayer(handleDrag(CurPlayer, position), "handleDrag", position)

\* the argument of the history tells whether a drag was going on
MouseUp ==
    /\ progressBar
    /\ ApplyPlayer(stopDrag(CurPlayer), "stopDrag",
                   IF isDragging THEN "dragging" ELSE "idle")

\* @mouseleave="isDragging && stopDrag()"
MouseLeave ==
    /\ progressBar
    /\ ApplyPlayer(IF isDragging THEN stopDrag(CurPlayer) ELSE CurPlayer,
                   "mouseleave", 0)

\* started: the promise of play() is fulfilled
TogglePlayPause(started) ==
    /\ progressBar
    /\ (isPlaying \/ audioUrl = << >>) => started
    /\ ApplyPlayer(handleClickOutside(togglePlayPause(CurPlayer, started), FALSE),
                   "togglePlayPause",
                   IF audioUrl = << >> THEN "none"
                   ELSE IF isPlaying THEN "pause"
                   ELSE IF started THEN "started" ELSE "rejected")

ResetAudio(started) ==
    /\ progressBar
    /\ ~isPlaying => started
    /\ ApplyPlayer(handleClickOutside(resetAudio(CurPlayer, started), FALSE),
                   "resetAudio",
                   IF ~isPlaying THEN "none"
                   ELSE IF started THEN "started" ELSE "rejected")

\* @click="showSpeedOptions = !showSpeedOptions"
ToggleSpeedOptions ==
    /\ progressBar
    /\ ApplyPlayer([CurPlayer EXCEPT !.showSpeedOptions = ~@], "speedOptions", 0)

SetPlaybackSpeed(speed) ==
    /\ progressBar
    /\ showSpeedOptions
    /\ ApplyPlayer(setPlaybackSpeed(CurPlayer, speed), "setPlaybackSpeed", speed)

\* a click in the document outside the component
ClickOutside ==
    /\ progressBar
    /\ ApplyPlayer(handleClickOutside(CurPlayer, FALSE), "handleClickOutside", 0)

\* the parent gives the prop audioUrl another value
AudioUrlChanges(newUrl) ==
    /\ progressBar
    /\ newUrl # audioUrl
    /\ listeners.ended < MaxListeners
    /\ ApplyPlayer(watchAudioUrl(CurPlayer, newUrl), "watchAudioUrl", newUrl)

Unmount ==
    /\ progressBar
    /\ ApplyPlayer(onUnmounted(CurPlayer), "onUnmounted", 0)

\* the metadata of the medium is loaded
LoadedMetadata(duration) ==
    /\ audioElement.src # << >>
    /\ audioElement.duration = NaN
    /\ ApplyPlayer(onLoadedMetadata([CurPlayer EXCEPT !.audioElement.duration = duration]),
                   "loadedmetadata", duration)

\* the medium plays on by half its length
TimePasses ==
    /\ ~audioElement.paused
    /\ IsFinite(audioElement.duration)
    /\ audioElement.currentTime < audioElement.duration
    /\ ApplyPlayer(onTimeupdate([CurPlayer EXCEPT !.audioElement.currentTime = @ + 2]),
                   "timeupdate", 0)

\* the media element fires timeupdate where it is
Timeupdate ==
    /\ audioElement.src # << >>
    /\ ApplyPlayer(onTimeupdate(CurPlayer), "timeupdate", 0)

\* playback has reached the end of the medium: the element is paused and
\* fires ended
Ended ==
    /\ ~audioElement.paused
    /\ audioElement.currentTime = audioElement.duration
    /\ ApplyPlayer(onEnded([CurPlayer EXCEPT !.audioElement.paused = TRUE],
                           listeners.ended),
                   "ended", 0)

NextPlayer ==
    \/ \E position \in PointerPositions : ProgressClick(position)
    \/ \E position \in PointerPositions : MouseDown(position)
    \/ \E position \in PointerPositions : MouseMove(position)
    \/ MouseUp
    \/ MouseLeave
    \/ \E started \in BOOLEAN : TogglePlayPause(started)
    \/ \E started \in BOOLEAN : ResetAudio(started)
    \/ ToggleSpeedOptions
    \/ \E speed \in speedOptions : SetPlaybackSpeed(speed)
    \/ ClickOutside
    \/ \E newUrl \in AudioUrls : AudioUrlChanges(newUrl)
    \/ Unmount
    \/ \E duration \in Durations : LoadedMetadata(duration)
    \/ TimePasses
    \/ Timeupdate
    \/ Ended

SpecPlayer == InitPlayer /\ [][NextPlayer]_vars

\* the handlers that take a position of the pointer
SeekHandlers == {"handleProgressClick", "startDrag", "handleDrag"}

\* the handler named op, run on the audio player as it is, with position
SeekBy(op, position) ==
    IF op = "handleProgressClick" THEN handleProgressClick(CurPlayer, position)
    ELSE IF op = "startDrag" THEN startDrag(CurPlayer, position)
    ELSE handleDrag(CurPlayer, position)

\* C25: a click and a drag at a position whose fraction f is outside [0,1]
\* leave the playback position and audioProgress that the same handler
\* leaves for the fraction clamp(f, 0, 1).
C25_SeekOutsideIsSeekToClamped ==
    [][( /\ lastOp' \in SeekHandlers
         /\ ~lastError'
         /\ (lastArg' < 0 \/ lastArg' > 100) )
          => LET clamped == SeekBy(lastOp', Clamp(lastArg', 0, 100))
             IN  /\ audioElement'.currentTime = clamped.audioElement.currentTime
                 /\ audioProgress' = clamped.audioProgress]_vars

\* C26: in the pointer sequence mousedown, mousemove ..., mouseup, click on
\* the progress bar the click that follows the mouseup of the drag assigns
\* no playback position.
C26_ClickAfterDragSeeksNot ==
    [][( /\ lastOp = "stopDrag"
         /\ lastArg = "dragging"
         /\ lastOp' = "handleProgressClick" )
          => /\ ~lastSeeked'
             /\ audioElement'.currentTime = audioElement.currentTime]_vars

\* the duration is a finite number above 0
FinitePositive(duration) == IsFinite(duration) /\ duration > 0

\* C27: the audio player emits timeupdate, and updateProgress writes
\* audioProgress, only when the duration of the medium is finite and above
\* 0, and no timeupdate it emits carries another duration.
C27_ProgressOnlyWithFiniteDuration ==
    [][ /\ \A i \in 1 .. Len(lastEmitted') :
              lastEmitted'[i].name = "timeupdate"
                => /\ FinitePositive(audioElement'.duration)
                   /\ FinitePositive(lastEmitted'[i].duration)
        /\ (lastOp' = "timeupdate" /\ ~FinitePositive(audioElement'.duration))
              => audioProgress' = audioProgress ]_vars

\* the listener updateProgress has run on a medium without end, after a
\* drag had written audioProgress
C27_Witness ==
    /\ lastOp = "timeupdate"
    /\ listeners.timeupdate = 1
    /\ audioElement.duration = Infinity
    /\ audioProgress = 50
    /\ lastEmitted = << >>

\* C28: when togglePlayPause starts playback and the promise of play() is
\* rejected, no error leaves the handler and isPlaying is false afterwards.
C28_RejectedPlayIsNotPlaying ==
    [][(lastOp' = "togglePlayPause" /\ lastArg' = "rejected")
          => (~lastError' /\ ~isPlaying')]_vars

\* C29: after a change of audioUrl to the URL of a new story playbackRate is
\* initialPlaybackRate, whatever rate setPlaybackSpeed had set; a click, a
\* drag and a reset leave playbackRate and the rate of the media element as
\* they are.
C29_RateResetsWithTheUrlOnly ==
    [][ /\ (lastOp' = "watchAudioUrl" /\ audioUrl' # << >>)
              => playbackRate' = initialPlaybackRate'
        /\ lastOp' \in SeekHandlers \cup {"resetAudio"}
              => /\ playbackRate' = playbackRate
                 /\ audioElement'.playbackRate = audioElement.playbackRate ]_vars

\* C30: the source of the media element is getFullAudioUrl(audioUrl) after
\* every assignment, at mount, at a change of audioUrl and at play: the
\* element never carries the relative audioUrl as it is.
C30_SourceIsTheFullUrl ==
    audioUrl # << >> => audioElement.src = getFullAudioUrl(audioUrl)

\* C31: when audioUrl changes, audioProgress and audioDuration are 0 right
\* after the change, whatever the progress, the drag and the playing state
\* were before.
C31_UrlChangeResetsProgress ==
    [][lastOp' = "watchAudioUrl"
          => (audioProgress' = 0 /\ audioDuration' = 0)]_vars

\* the number of events named name in a sequence of emitted events
RECURSIVE EmittedCount(_, _)
EmittedCount(events, name) ==
    IF events = << >> THEN 0
    ELSE (IF Head(events).name = name THEN 1 ELSE 0)
         + EmittedCount(Tail(events), name)

\* C38: isPlaying is false after a change of audioUrl to another medium,
\* whose cleanup pauses the media element, and after the event ended of the
\* media element: isPlaying is true only while the element plays.
C38_PlayingOnlyWhilePlaying ==
    [][( \/ (lastOp' = "watchAudioUrl" /\ audioUrl' # << >>)
         \/ lastOp' = "ended" )
          => (audioElement'.paused /\ ~isPlaying')]_vars

\* C39: one event ended of the media element makes the audio player emit
\* "ended" once, after the mount and after any number of changes of
\* audioUrl.
C39_OneEndedForEachEnd ==
    [][lastOp' = "ended" => EmittedCount(lastEmitted', "ended") = 1]_vars

\* C40: a click or a drag on the progress bar while the duration of the
\* medium is not known changes neither the playback position nor
\* audioProgress.
C40_SeekWithoutDurationIsNoOp ==
    [][(lastOp' \in SeekHandlers /\ audioElement.duration = NaN)
          => /\ audioElement'.currentTime = audioElement.currentTime
             /\ audioProgress' = audioProgress]_vars

----------------------------------------------------------------------------
(* The guarded copy as its page lets the user act: a handler runs when its *)
(* control is rendered and not disabled                                    *)

ClickTopic(topic) == TopicButtonEnabled /\ SelectTopic(topic)

ClickAnswerType(type) == AnswerTypeButtonEnabled /\ SelectAnswerType(type)

ClickContinue(m) == ContinueButtonEnabled /\ ShowQuestions(m)

ClickRadio(m, c) == Len(messages[m].choices) > 0 /\ SelectChoice(m, c)

ClickNext == NextButtonEnabled /\ GoToNextQuestion

\* the send button is disabled while the textarea holds blanks only
ClickSend(text) == TextareaEnabled /\ Trim(text) # "" /\ SendMessage(text)

PressEnter(text) == TextareaEnabled /\ HandleKeyPress(text)

NextRendered ==
    \/ \E topic \in Topics : ClickTopic(topic)
    \/ \E type \in AnswerTypes : ClickAnswerType(type)
    \/ \E i \in 1 .. Len(storyRequests), resp \in StoryResponses : StoryResponse(i, resp)
    \/ \E m \in 1 .. Len(messages) : ClickContinue(m)
    \/ \E m \in 1 .. Len(messages), c \in 0 .. 1 : ClickRadio(m, c)
    \/ ClickNext
    \/ \E text \in UserTexts : ClickSend(text)
    \/ \E text \in UserTexts : PressEnter(text)
    \/ \E i \in 1 .. Len(evalRequests), resp \in EvalResponses : EvalResponse(i, resp)
    \/ RestartQuiz

SpecRendered == InitGuarded /\ [][NextRendered]_vars

\* the messages of the log that are questions
QuestionMessages(ms) == SelectSeq(ms, LAMBDA m : m.type = "question")

\* C32: in the guarded copy, acted on through the controls of its page, a
\* generate-story request is issued only after a topic was selected,
\* showQuestions runs only while a story message is in the log, a question
\* message is in the log only after showQuestions ran, and evaluateAnswers
\* starts only after showQuestions ran.
C32_StagesInOrder ==
    [][ /\ Len(storyRequests') > Len(storyRequests) => selectedTopic # ""
        /\ lastOp' = "showQuestions" => StoryCount >= 1
        /\ QuestionMessages(messages') # << >> => continueButtonClicked'
        /\ EvaluationTriggered' => continueButtonClicked ]_vars

\* an evaluation has started at the end of a quiz of two questions
C32_Witness ==
    /\ variant = "Guarded"
    /\ EvaluationTriggered
    /\ Len(QuestionMessages(messages)) = 2
    /\ selectedTopic # ""
    /\ StoryCount = 1

\* C33: in the guarded copy the question messages of the log carry the
\* indices 0, 1, 2, ... in this order, each index once, and the message of
\* question i + 1 is in the log only when question i is marked answered.
C33_QuestionsInIndexOrder ==
    variant = "Guarded"
      => LET qm == QuestionMessages(messages)
         IN  \A k \in 1 .. Len(qm) :
                /\ qm[k].qi = k - 1
                /\ k > 1 => answeredQuestions[k - 2]

\* the second question was asked after the first was answered
C33_Witness ==
    /\ variant = "Guarded"
    /\ Len(QuestionMessages(messages)) = 2
    /\ answeredQuestions[0]
    /\ ~answeredQuestions[1]

\* C34: from one step of a session to the next, restartQuiz apart, a
\* question that is marked answered stays marked answered and keeps its
\* recorded choice.
C34_AnsweredIsWrittenOnce ==
    [][lastOp' # "restartQuiz"
          => \A k \in KeyDom :
                answeredQuestions[k]
                  => /\ answeredQuestions'[k]
                     /\ selectedChoices'[k] = selectedChoices[k]]_vars

\* the handlers the user runs through the controls of the page, restartQuiz
\* apart
UserOps == {"selectTopic", "selectAnswerType", "showQuestions", "selectChoice",
            "goToNextQuestion", "sendMessage", "handleKeyPress"}

\* C35: in the guarded copy, once the restart prompt is in the log, no
\* control of the page but the restart button accepts a user action, and no
\* handler the user runs through the page, restartQuiz apart, changes the
\* log or the state of the quiz.
C35_OnlyRestartAfterThePrompt ==
    [][(variant = "Guarded" /\ RestartButtonInPage)
          => /\ ~TopicButtonEnabled
             /\ ~AnswerTypeButtonEnabled
             /\ ~ContinueButtonEnabled
             /\ ~SomeRadioEnabled
             /\ ~NextButtonEnabled
             /\ ~TextareaEnabled
             /\ lastOp' \in UserOps => UNCHANGED << messages, quizVars >>]_vars

\* the restart prompt is the last message of a free-text quiz of two
\* questions that was evaluated
C35_Witness ==
    /\ variant = "Guarded"
    /\ RestartButtonInPage
    /\ messages[Len(messages)].type = "restart"
    /\ lastOp = "evalResponse"
    /\ Len(QuestionMessages(messages)) = 2
    /\ answeredQuestions[1]

\* the messages of the log that tell the count of correct answers computed
\* by goToNextQuestion
CompletionCount(ms) ==
    Cardinality({ i \in 1 .. Len(ms) : ms[i].tk = "completionCount" })

\* C36: in free-text mode, in either copy, no step of the controller appends
\* the message with the locally computed count of correct answers.
C36_NoLocalCountInFreeText ==
    [][(answerType = "text" /\ answerType' = "text")
          => CompletionCount(messages') <= CompletionCount(messages)]_vars

\* The id of a message of the model is the id of the code without the
\* reading of Date.now() it may hold.  FixedIds are the ids that hold no
\* reading of the clock, IdIndex is the index that a formatted id carries
\* behind the reading.
FixedIds == {"1", "loading", "story-r1", "story-"}

IdIndex(m) == IF m.id \in {"feedback", "answer-i"} THEN m.qi ELSE -1

\* the messages of the log that a step keeps: all of them, or all but the
\* loading placeholders, or none
KeptLen ==
    IF IsPrefix(messages, messages') THEN Len(messages)
    ELSE IF IsPrefix(FilterLoading(messages), messages')
         THEN Len(FilterLoading(messages))
         ELSE 0

\* C37: the entries of the log have pairwise distinct ids, in either copy:
\* no two entries have the same id without clock, and no two entries that
\* one run of a handler appends, within one reading of the clock, have ids
\* that differ in the reading of the clock only.
C37_IdsAreDistinct ==
    [][\A i, j \in 1 .. Len(messages') :
          (i < j /\ messages'[i].id = messages'[j].id)
            => /\ messages'[i].id \notin FixedIds
               /\ (i > KeptLen => IdIndex(messages'[i]) # IdIndex(messages'[j]))]_vars

====
